---------------------------- MODULE Spec2Model ----------------------------
(***************************************************************************)
(* A model of the heuristic symbol-usage matcher of the OpenCPN plugin API *)
(* analyzer: PluginAnalyzer._analyze_file_content (prefilter, quote and    *)
(* comment aware line scanner, kind-specific disambiguator) and            *)
(* PluginAnalyzer._analyze_plugin_repo (the per-repository tally).         *)
(*                                                                         *)
(* A text is a sequence of one-character strings.  The regular expressions *)
(* of the source are evaluated character by character, with the meaning    *)
(* Python's re module gives them: \b, \w, \s, escaped literals, greedy     *)
(* repetition with backtracking, leftmost non-overlapping findall.         *)
(***************************************************************************)
EXTENDS Integers, Sequences, FiniteSets, TLC

(***************************************************************************)
(* Characters                                                              *)
(***************************************************************************)
QUOTE == "\""
BACKSLASH == "\\"
NEWLINE == "\n"
SPACE == " "

Letters ==
    {"A", "B", "F", "S", "T", "W",
     "a", "b", "c", "d", "e", "g", "h", "i", "m", "n", "o", "p", "r", "s",
     "t", "u", "x", "y"}

\* \w of the re module: letters, digits and the underscore
IsWordChar(c) == c \in Letters \cup {"_", "0", "1"}

\* \s of the re module, and the characters str.strip() removes
IsSpace(c) == c \in {SPACE, NEWLINE, "\t"}

\* \b at the gap before position i of s (i in 1..Len(s)+1): exactly one of
\* the two neighbouring characters is a word character; outside the text
\* counts as a non-word character
WordBoundary(s, i) ==
    LET before == i > 1 /\ IsWordChar(s[i - 1])
        after == i <= Len(s) /\ IsWordChar(s[i])
    IN before # after

\* re.escape(lit) matched at position i of s
LiteralAt(s, i, lit) ==
    /\ i + Len(lit) - 1 <= Len(s)
    /\ \A k \in 1..Len(lit) : s[i + k - 1] = lit[k]

\* the position after the longest run of \s characters starting at i
RECURSIVE SkipSpaces(_, _)
SkipSpaces(s, i) ==
    IF i <= Len(s) /\ IsSpace(s[i]) THEN SkipSpaces(s, i + 1) ELSE i

\* re.search(r"\b" + re.escape(word) + r"\b", s) is not None
SearchWord(s, word) ==
    \E i \in 1..Len(s) :
        /\ WordBoundary(s, i)
        /\ LiteralAt(s, i, word)
        /\ WordBoundary(s, i + Len(word))


\* str.splitlines(): the lines of s, the line break being NEWLINE; a final
\* line break opens no further line
RECURSIVE SplitLines(_)
SplitLines(s) ==
    IF s = <<>> THEN <<>>
    ELSE IF \E k \in 1..Len(s) : s[k] = NEWLINE
         THEN LET k == CHOOSE j \in 1..Len(s) :
                          s[j] = NEWLINE /\ \A h \in 1..(j - 1) : s[h] # NEWLINE
              IN <<SubSeq(s, 1, k - 1)>> \o SplitLines(SubSeq(s, k + 1, Len(s)))
         ELSE <<s>>

\* str.strip()
Strip(line) ==
    IF \A k \in 1..Len(line) : IsSpace(line[k]) THEN <<>>
    ELSE LET first == CHOOSE j \in 1..Len(line) :
                          ~IsSpace(line[j]) /\ \A h \in 1..(j - 1) : IsSpace(line[h])
             last == CHOOSE j \in 1..Len(line) :
                          ~IsSpace(line[j]) /\ \A h \in (j + 1)..Len(line) : IsSpace(line[h])
         IN SubSeq(line, first, last)

\* a comment test that does not trim the line
IsCommentLineUntrimmed(line) == LiteralAt(line, 1, <<"/", "/">>)

\* line.strip().startswith("//")
IsCommentLine(line) == LiteralAt(Strip(line), 1, <<"/", "/">>)

(***************************************************************************)
(* Qualified names                                                         *)
(***************************************************************************)
SCOPE == <<":", ":">>

\* "::" in symbol_name
HasScope(name) == \E i \in 1..Len(name) : LiteralAt(name, i, SCOPE)

\* symbol_name.split("::"): the separators are found from the left and do
\* not overlap
RECURSIVE SplitScope(_)
SplitScope(name) ==
    IF HasScope(name)
    THEN LET k == CHOOSE j \in 1..Len(name) :
                     /\ LiteralAt(name, j, SCOPE)
                     /\ \A h \in 1..(j - 1) : ~LiteralAt(name, h, SCOPE)
         IN <<SubSeq(name, 1, k - 1)>> \o SplitScope(SubSeq(name, k + 2, Len(name)))
    ELSE <<name>>

\* symbol_name.split("::")[-1]
ShortName(name) == LET parts == SplitScope(name) IN parts[Len(parts)]

\* symbol_name.split("::")[-2]
ParentName(name) == LET parts == SplitScope(name) IN parts[Len(parts) - 1]

(***************************************************************************)
(* First pass: the candidate prefilter                                     *)
(***************************************************************************)
chunk_size == 100

\* the catalog is a dict: its keys in insertion order, each with its kind
Keys(symbols) == [i \in 1..Len(symbols) |-> symbols[i].name]

KindOf(symbols, name) ==
    LET i == CHOOSE j \in 1..Len(symbols) : symbols[j].name = name
    IN symbols[i].kind

\* symbol_names.sort(key=len, reverse=True): by the length of the qualified
\* name, longest first; the sort is stable, names of one length keep their
\* order.  The name at index i goes after the longer names and after the
\* names of its length that stand before it.
SortByLenDesc(names) ==
    LET n == Len(names)
        place(i) == Cardinality({j \in 1..n : Len(names[j]) > Len(names[i])})
                    + Cardinality({j \in 1..i : Len(names[j]) = Len(names[i])})
    IN [p \in 1..n |-> names[CHOOSE i \in 1..n : place(i) = p]]

\* symbol_names[i : i + size], i counted from 0 as in the source
Chunk(names, i, size) ==
    SubSeq(names, i + 1, IF i + size < Len(names) THEN i + size ELSE Len(names))

\* an alternation without the \b anchors: the first alternative whose
\* literal is at position i
AlternativeAtSubstring(s, i, alts) ==
    LET ok == {a \in 1..Len(alts) : LiteralAt(s, i, alts[a])}
    IN IF ok = {} THEN 0 ELSE CHOOSE a \in ok : \A b \in ok : a <= b

\* the alternative of \b(?:n1|n2|...)\b that matches at position i: the
\* first one, in the order of the alternation, whose literal is there and
\* ends at a word boundary; 0 when none does
AlternativeAt(s, i, alts) ==
    IF ~WordBoundary(s, i) THEN 0
    ELSE LET ok == {a \in 1..Len(alts) :
                       LiteralAt(s, i, alts[a]) /\ WordBoundary(s, i + Len(alts[a]))}
         IN IF ok = {} THEN 0 ELSE CHOOSE a \in ok : \A b \in ok : a <= b

\* re.findall(pattern, content) for the alternation of alts: the matches
\* from the left, each search resuming where the last match ended (the
\* source only asks which strings matched, so they are kept as a set)
RECURSIVE FindAllFrom(_, _, _)
FindAllFrom(s, i, alts) ==
    IF i > Len(s) THEN {}
    ELSE LET a == AlternativeAt(s, i, alts)
         IN IF a = 0 THEN FindAllFrom(s, i + 1, alts)
            ELSE {alts[a]} \cup FindAllFrom(s, i + Len(alts[a]), alts)

\* one iteration of the chunk loop: the symbols of the chunk whose short
\* name is among the chunk's matches
ChunkCandidates(text, chunk) ==
    LET alts == [k \in 1..Len(chunk) |-> ShortName(chunk[k])]
        matches == FindAllFrom(text, 1, alts)
    IN {chunk[k] : k \in {j \in 1..Len(chunk) : ShortName(chunk[j]) \in matches}}

(***************************************************************************)
(* Second pass: the quote and comment aware line scanner                   *)
(***************************************************************************)
\* a character loop in which every quote toggles in_quote, escaped or not
RECURSIVE QuoteScanNoEscape(_, _, _, _, _)
QuoteScanNoEscape(line, i, in_quote, start, line_parts) ==
    IF i > Len(line)
    THEN IF ~in_quote /\ start <= Len(line)
         THEN Append(line_parts, SubSeq(line, start, Len(line)))
         ELSE line_parts
    ELSE IF line[i] = QUOTE
         THEN IF in_quote
              THEN QuoteScanNoEscape(line, i + 1, FALSE, i + 1, line_parts)
              ELSE QuoteScanNoEscape(line, i + 1, TRUE, i + 1,
                                     IF i > start
                                     THEN Append(line_parts, SubSeq(line, start, i - 1))
                                     ELSE line_parts)
         ELSE QuoteScanNoEscape(line, i + 1, in_quote, start, line_parts)

\* the number of backslashes that stand right before position i
RECURSIVE BackslashesBefore(_, _)
BackslashesBefore(line, i) ==
    IF i > 1 /\ line[i - 1] = BACKSLASH THEN 1 + BackslashesBefore(line, i - 1) ELSE 0

\* a character loop that tells an escaped quote from an escaped backslash:
\* a quote toggles in_quote unless an odd number of backslashes precedes it
RECURSIVE QuoteScanCountsBackslashes(_, _, _, _, _)
QuoteScanCountsBackslashes(line, i, in_quote, start, line_parts) ==
    IF i > Len(line)
    THEN IF ~in_quote /\ start <= Len(line)
         THEN Append(line_parts, SubSeq(line, start, Len(line)))
         ELSE line_parts
    ELSE IF line[i] = QUOTE /\ BackslashesBefore(line, i) % 2 = 0
         THEN IF in_quote
              THEN QuoteScanCountsBackslashes(line, i + 1, FALSE, i + 1, line_parts)
              ELSE QuoteScanCountsBackslashes(line, i + 1, TRUE, i + 1,
                                              IF i > start
                                              THEN Append(line_parts, SubSeq(line, start, i - 1))
                                              ELSE line_parts)
         ELSE QuoteScanCountsBackslashes(line, i + 1, in_quote, start, line_parts)

\* the character loop over one line: line_parts when the loop has handled
\* the characters before i.  start is the source's start_idx + 1.
RECURSIVE QuoteScan(_, _, _, _, _)
QuoteScan(line, i, in_quote, start, line_parts) ==
    IF i > Len(line)
    THEN IF ~in_quote /\ start <= Len(line)
         THEN Append(line_parts, SubSeq(line, start, Len(line)))
         ELSE line_parts
    ELSE IF line[i] = QUOTE /\ (i = 1 \/ line[i - 1] # BACKSLASH)
         THEN IF in_quote
              THEN QuoteScan(line, i + 1, FALSE, i + 1, line_parts)
              ELSE QuoteScan(line, i + 1, TRUE, i + 1,
                             IF i > start
                             THEN Append(line_parts, SubSeq(line, start, i - 1))
                             ELSE line_parts)
         ELSE QuoteScan(line, i + 1, in_quote, start, line_parts)

\* the non-quoted parts of a line
UnquotedParts(line) == QuoteScan(line, 1, FALSE, 1, <<>>)

\* the line up to its first //
BeforeComment(line) ==
    IF \E k \in 1..Len(line) : LiteralAt(line, k, <<"/", "/">>)
    THEN LET k == CHOOSE j \in 1..Len(line) :
                     /\ LiteralAt(line, j, <<"/", "/">>)
                     /\ \A h \in 1..(j - 1) : ~LiteralAt(line, h, <<"/", "/">>)
         IN SubSeq(line, 1, k - 1)
    ELSE line

\* a search that leaves out what follows // on the line
LineHasMatchInCode(line, short_name) ==
    LET parts == UnquotedParts(BeforeComment(line))
    IN \E p \in 1..Len(parts) : SearchWord(parts[p], short_name)

\* Check for pattern in non-quoted parts of one line that is no comment line
LineHasMatch(line, short_name) ==
    /\ ~IsCommentLine(line)
    /\ LET parts == UnquotedParts(line)
       IN \E p \in 1..Len(parts) : SearchWord(parts[p], short_name)

\* a scan of the raw text, comment lines and strings included
MatchFoundInRawText(text, short_name) == SearchWord(text, short_name)

\* a loop over the lines in which in_quote is not reset: each line starts
\* in the state the quotes of the lines before it leave
MatchFoundQuoteCarried(text, short_name) ==
    LET lines == SplitLines(text)
        toggles(l) == Cardinality({k \in 1..Len(lines[l]) :
                                      /\ lines[l][k] = QUOTE
                                      /\ (k = 1 \/ lines[l][k - 1] # BACKSLASH)})
        RECURSIVE open_at(_)
        open_at(l) == IF l = 1 THEN FALSE
                      ELSE (open_at(l - 1) # (toggles(l - 1) % 2 = 1))
    IN \E l \in 1..Len(lines) :
          /\ ~IsCommentLine(lines[l])
          /\ LET parts == QuoteScan(lines[l], 1, open_at(l), 1, <<>>)
             IN \E p \in 1..Len(parts) : SearchWord(parts[p], short_name)

\* match_found when the loop over content.splitlines() ends
MatchFound(text, short_name) ==
    LET lines == SplitLines(text)
    IN \E l \in 1..Len(lines) : LineHasMatch(lines[l], short_name)

(***************************************************************************)
(* Second pass: the kind-specific checks                                   *)
(***************************************************************************)
\* a method pattern without the \s* before the parenthesis
MethodPatternNoBlank(text, class_name, short_name) ==
    \E i \in 1..Len(text) :
        /\ WordBoundary(text, i)
        /\ \E sep \in {SCOPE, <<".">>} :
              LiteralAt(text, i, class_name \o sep \o short_name \o <<"(">>)

\* re.search(method_pattern, content):
\* \b class_name (?:::|\.) short_name \s* \(
MethodPatternFound(text, class_name, short_name) ==
    \E i \in 1..Len(text) :
        /\ WordBoundary(text, i)
        /\ LiteralAt(text, i, class_name)
        /\ \E sep \in {SCOPE, <<".">>} :
              LET j == i + Len(class_name)
                  k == j + Len(sep)
              IN /\ LiteralAt(text, j, sep)
                 /\ LiteralAt(text, k, short_name)
                 /\ LiteralAt(text, SkipSpaces(text, k + Len(short_name)), <<"(">>)

\* a class pattern with \b after the short name
ClassPatternWholeWord(text, short_name) ==
    \E i \in 1..Len(text) :
        /\ WordBoundary(text, i)
        /\ LiteralAt(text, i, short_name)
        /\ WordBoundary(text, i + Len(short_name))
        /\ LET j == SkipSpaces(text, i + Len(short_name))
               k == IF j <= Len(text) /\ text[j] \in {"*", "&"}
                    THEN SkipSpaces(text, j + 1) ELSE j
           IN \/ (j <= Len(text) /\ IsWordChar(text[j]))
              \/ (k <= Len(text) /\ IsWordChar(text[k]))

\* re.search(class_pattern, content):
\* \b short_name \s* (?:\*|\&)? \s* \w+
ClassPatternFound(text, short_name) ==
    \E i \in 1..Len(text) :
        /\ WordBoundary(text, i)
        /\ LiteralAt(text, i, short_name)
        /\ LET j == SkipSpaces(text, i + Len(short_name))
               k == IF j <= Len(text) /\ text[j] \in {"*", "&"}
                    THEN SkipSpaces(text, j + 1) ELSE j
           IN \* without the optional * or &, or with it
              \/ (j <= Len(text) /\ IsWordChar(text[j]))
              \/ (k <= Len(text) /\ IsWordChar(text[k]))

\* re.search(enum_pattern, content): \b enum_name :: short_name \b
EnumPatternFound(text, enum_name, short_name) ==
    \E i \in 1..Len(text) :
        /\ WordBoundary(text, i)
        /\ LiteralAt(text, i, enum_name \o SCOPE \o short_name)
        /\ WordBoundary(text, i + Len(enum_name) + 2 + Len(short_name))

\* a using pattern searched without re.DOTALL: .* stays on the line of the
\* semicolon
UsingPatternSameLine(text, enum_name, short_name) ==
    LET USING == <<"u", "s", "i", "n", "g">>
        NAMESPACE == <<"n", "a", "m", "e", "s", "p", "a", "c", "e">>
        AfterSpaces(i) == {j \in (i + 1)..SkipSpaces(text, i) : TRUE}
        NameStarts(i) ==
            LET direct == AfterSpaces(i + Len(USING))
                viaNamespace == UNION {
                    IF LiteralAt(text, j, NAMESPACE)
                    THEN AfterSpaces(j + Len(NAMESPACE)) ELSE {} : j \in direct}
            IN direct \cup viaNamespace
    IN \E i \in 1..Len(text) :
          /\ LiteralAt(text, i, USING)
          /\ \E n \in NameStarts(i) :
                /\ LiteralAt(text, n, enum_name)
                /\ LET semi == SkipSpaces(text, n + Len(enum_name))
                   IN /\ LiteralAt(text, semi, <<";">>)
                      /\ \E w \in (semi + 1)..Len(text) :
                            /\ \A k \in (semi + 1)..(w - 1) : text[k] # NEWLINE
                            /\ WordBoundary(text, w)
                            /\ LiteralAt(text, w, short_name)
                            /\ WordBoundary(text, w + Len(short_name))

\* re.search(using_pattern, content, re.DOTALL):
\* using \s+ (?:namespace \s+)? enum_name \s* ; .* \b short_name \b
\* \s+ may give back characters, so every length of the run is tried
UsingPatternFound(text, enum_name, short_name) ==
    LET USING == <<"u", "s", "i", "n", "g">>
        NAMESPACE == <<"n", "a", "m", "e", "s", "p", "a", "c", "e">>
        \* the positions a run of one or more \s starting at i can end before
        AfterSpaces(i) == {j \in (i + 1)..SkipSpaces(text, i) : TRUE}
        \* the positions where enum_name may start, "using" starting at i
        NameStarts(i) ==
            LET direct == AfterSpaces(i + Len(USING))
                viaNamespace == UNION {
                    IF LiteralAt(text, j, NAMESPACE)
                    THEN AfterSpaces(j + Len(NAMESPACE)) ELSE {} : j \in direct}
            IN direct \cup viaNamespace
    IN \E i \in 1..Len(text) :
          /\ LiteralAt(text, i, USING)
          /\ \E n \in NameStarts(i) :
                /\ LiteralAt(text, n, enum_name)
                /\ LET semi == SkipSpaces(text, n + Len(enum_name))
                   IN /\ LiteralAt(text, semi, <<";">>)
                      /\ \E w \in (semi + 1)..Len(text) :
                            /\ WordBoundary(text, w)
                            /\ LiteralAt(text, w, short_name)
                            /\ WordBoundary(text, w + Len(short_name))

\* len(re.findall(r"\b" + re.escape(short_name) + r"\b", content))
RECURSIVE CountWordFrom(_, _, _)
CountWordFrom(s, i, word) ==
    IF i > Len(s) THEN 0
    ELSE IF WordBoundary(s, i) /\ LiteralAt(s, i, word)
            /\ WordBoundary(s, i + Len(word))
         THEN 1 + CountWordFrom(s, i + Len(word), word)
         ELSE CountWordFrom(s, i + 1, word)

Occurrences(text, short_name) == CountWordFrom(text, 1, short_name)

\* the bounds of the fallback: occurrences < 5 and len(short_name) > 5
RARE_OCCURRENCES == 5
RARE_LENGTH == 5

\* a fallback that takes 5 occurrences too
RareEnoughInclusive(text, short_name) ==
    LET occurrences == Occurrences(text, short_name)
    IN occurrences > 0 /\ occurrences <= RARE_OCCURRENCES
       /\ Len(short_name) > RARE_LENGTH

\* a fallback that does not look at the length of the short name
RareEnoughAnyLength(text, short_name) ==
    LET occurrences == Occurrences(text, short_name)
    IN occurrences > 0 /\ occurrences < RARE_OCCURRENCES

\* the fallback at the end of the loop body
RareEnough(text, short_name) ==
    LET occurrences == Occurrences(text, short_name)
    IN occurrences > 0 /\ occurrences < RARE_OCCURRENCES
       /\ Len(short_name) > RARE_LENGTH

\* a body in which the check of the symbol's kind decides alone: a method,
\* class or enum constant that fails its check is not passed on to the
\* fallback
AcceptsFirstRuleDecides(text, symbol_name, kind) ==
    LET short_name == ShortName(symbol_name)
    IN IF kind \in {"CXX_METHOD", "FUNCTION_DECL"} /\ HasScope(symbol_name)
       THEN MethodPatternFound(text, ParentName(symbol_name), short_name)
       ELSE IF kind \in {"CLASS_DECL", "STRUCT_DECL"}
       THEN ClassPatternFound(text, short_name)
       ELSE IF kind = "ENUM_CONSTANT_DECL" /\ HasScope(symbol_name)
       THEN \/ EnumPatternFound(text, ParentName(symbol_name), short_name)
            \/ UsingPatternFound(text, ParentName(symbol_name), short_name)
       ELSE IF kind \in {"MACRO_DEFINITION", "FUNCTION_DECL"} /\ ~HasScope(symbol_name)
       THEN TRUE
       ELSE LET occurrences == Occurrences(text, short_name)
            IN occurrences > 0 /\ occurrences < RARE_OCCURRENCES
               /\ Len(short_name) > RARE_LENGTH

\* the body of "if match_found:": whether symbol_name is added to
\* found_symbols.  Each check that succeeds adds the symbol and continues
\* with the next symbol; a check that fails falls through to the next one
\* and, at the end, to the fallback.
Accepts(text, symbol_name, kind) ==
    LET short_name == ShortName(symbol_name)
    IN \/ /\ kind \in {"CXX_METHOD", "FUNCTION_DECL"}
          /\ HasScope(symbol_name)
          /\ MethodPatternFound(text, ParentName(symbol_name), short_name)
       \/ /\ kind \in {"CLASS_DECL", "STRUCT_DECL"}
          /\ ClassPatternFound(text, short_name)
       \/ /\ kind = "ENUM_CONSTANT_DECL"
          /\ HasScope(symbol_name)
          /\ \/ EnumPatternFound(text, ParentName(symbol_name), short_name)
             \/ UsingPatternFound(text, ParentName(symbol_name), short_name)
       \/ /\ kind \in {"MACRO_DEFINITION", "FUNCTION_DECL"}
          /\ ~HasScope(symbol_name)
       \/ RareEnough(text, short_name)

(***************************************************************************)
(* The analysis of one repository: _analyze_plugin_repo and, inside its    *)
(* loop, _analyze_file_content                                             *)
(***************************************************************************)
VARIABLES
    api_symbols,       \* the catalog: <<[name, kind], ...>> in dict order
    cpp_files,         \* the file list: <<[readable, text], ...>>
    pc,                \* where the run is
    file_idx,          \* the file the loop of _analyze_plugin_repo is at
    content,           \* _analyze_file_content: the text read
    symbol_names,      \* the sorted keys
    chunk_i,           \* the chunk loop's i
    symbols_to_check,  \* the candidates of the first pass
    pending,           \* the candidates the second pass has not visited yet
    certified,         \* the candidates for which match_found was True
    found_symbols,     \* the accepted symbols of the file
    symbol_counts,     \* the tally: a function on the names counted so far
    returned,          \* the sets _analyze_file_content returned, per file
    result,            \* what _analyze_plugin_repo returned
    repo_tree,         \* find_cpp_files: the directories and files under repo_dir
    walk_stack,        \* os.walk: the directories still to visit, the next one first
    plugins,           \* analyze_plugins: the plugins of the catalog, in dict order
    todo,              \* the plugins the loops of analyze_plugins have not reached yet
    work_dir,          \* the directories under the working directory
    results,           \* analyze_plugins: api version -> plugin name -> tally
    calls,             \* per plugin reached: what clone_repo and the analysis returned
    _LIBCLANG_INITIALIZED, \* api_parser: the global flag
    Config,            \* clang.cindex.Config: loaded, library_file
    libclang,          \* the machine: is a libclang found on the searched paths, can it be loaded
    init_runs,         \* how many times _initialize_clang was entered
    parsers,           \* the ApiHeaderParser objects constructed: their header_url
    format,            \* ReportGenerator: self.format
    report_results,    \* ReportGenerator.generate: results, in dict order
    report             \* what the report method computed and wrote

\* the state of the batch and of the file enumeration
batch_vars == <<repo_tree, walk_stack, plugins, todo, work_dir, results, calls>>

\* the state of the header parser's setup and of the report generator
tool_vars == <<_LIBCLANG_INITIALIZED, Config, libclang, init_runs, parsers,
               format, report_results, report>>

vars == <<api_symbols, cpp_files, pc, file_idx, content, symbol_names, chunk_i,
          symbols_to_check, pending, certified, found_symbols, symbol_counts,
          returned, result, repo_tree, walk_stack, plugins, todo, work_dir,
          results, calls, _LIBCLANG_INITIALIZED, Config, libclang, init_runs,
          parsers, format, report_results, report>>

NoResult == [none |-> TRUE]

\* the locals of _analyze_file_content, before a call and after its return
NoCall ==
    /\ content' = <<>>
    /\ symbol_names' = <<>>
    /\ chunk_i' = 0
    /\ symbols_to_check' = {}
    /\ pending' = {}

\* a read failure that is not caught and ends the run of the repository
ReadFailsUncaught ==
    /\ pc = "loop"
    /\ file_idx <= Len(cpp_files)
    /\ ~cpp_files[file_idx].readable
    /\ pc' = "raised"
    /\ UNCHANGED <<api_symbols, cpp_files, file_idx, content, symbol_names, chunk_i,
                   symbols_to_check, pending, certified, found_symbols,
                   symbol_counts, returned, result>>
    /\ UNCHANGED batch_vars
    /\ UNCHANGED tool_vars

\* open() or read() raises IOError: the warning is logged, set() returned
ReadFails ==
    /\ pc = "loop"
    /\ file_idx <= Len(cpp_files)
    /\ ~cpp_files[file_idx].readable
    /\ NoCall
    /\ certified' = {}
    /\ found_symbols' = {}
    /\ pc' = "fold"
    /\ UNCHANGED <<api_symbols, cpp_files, file_idx, symbol_counts, returned, result>>
    /\ UNCHANGED batch_vars
    /\ UNCHANGED tool_vars

\* a first pass that cannot start on an empty list of names: it raises
ReadFileNeedsNames ==
    /\ pc = "loop"
    /\ file_idx <= Len(cpp_files)
    /\ cpp_files[file_idx].readable
    /\ certified' = {}
    /\ found_symbols' = {}
    /\ symbols_to_check' = {}
    /\ pending' = {}
    /\ chunk_i' = 0
    /\ content' = cpp_files[file_idx].text
    /\ symbol_names' = SortByLenDesc(Keys(api_symbols))
    /\ pc' = IF api_symbols = <<>> THEN "raised" ELSE "prefilter"
    /\ UNCHANGED <<api_symbols, cpp_files, file_idx, symbol_counts, returned, result>>
    /\ UNCHANGED batch_vars
    /\ UNCHANGED tool_vars

\* a read that keeps the set of the file before: found_symbols is shared
\* by the calls instead of being a new set in each
ReadFileSharedSet ==
    /\ pc = "loop"
    /\ file_idx <= Len(cpp_files)
    /\ cpp_files[file_idx].readable
    /\ certified' = {}
    /\ found_symbols' = found_symbols
    /\ symbols_to_check' = {}
    /\ pending' = {}
    /\ chunk_i' = 0
    /\ IF api_symbols = <<>>
       THEN /\ content' = <<>>
            /\ symbol_names' = <<>>
            /\ pc' = "fold"
       ELSE /\ content' = cpp_files[file_idx].text
            /\ symbol_names' = SortByLenDesc(Keys(api_symbols))
            /\ pc' = "prefilter"
    /\ UNCHANGED <<api_symbols, cpp_files, file_idx, symbol_counts, returned, result>>
    /\ UNCHANGED batch_vars
    /\ UNCHANGED tool_vars

\* the file is read; the keys are listed and sorted; with no key the chunk
\* loop has nothing to do and the empty found_symbols is returned
ReadFile ==
    /\ pc = "loop"
    /\ file_idx <= Len(cpp_files)
    /\ cpp_files[file_idx].readable
    /\ certified' = {}
    /\ found_symbols' = {}
    /\ symbols_to_check' = {}
    /\ pending' = {}
    /\ chunk_i' = 0
    /\ IF api_symbols = <<>>
       THEN /\ content' = <<>>
            /\ symbol_names' = <<>>
            /\ pc' = "fold"
       ELSE /\ content' = cpp_files[file_idx].text
            /\ symbol_names' = SortByLenDesc(Keys(api_symbols))
            /\ pc' = "prefilter"
    /\ UNCHANGED <<api_symbols, cpp_files, file_idx, symbol_counts, returned, result>>
    /\ UNCHANGED batch_vars
    /\ UNCHANGED tool_vars

\* one iteration of the chunk loop; after the last one, either nothing is
\* to check and found_symbols is returned empty, or the second pass starts
PrefilterChunk ==
    /\ pc = "prefilter"
    /\ chunk_i < Len(symbol_names)
    /\ LET chunk == Chunk(symbol_names, chunk_i, chunk_size)
           to_check == symbols_to_check \cup ChunkCandidates(content, chunk)
           last == chunk_i + chunk_size >= Len(symbol_names)
       IN /\ chunk_i' = chunk_i + chunk_size
          /\ IF ~last
             THEN /\ symbols_to_check' = to_check
                  /\ UNCHANGED <<pc, pending, content, symbol_names>>
             ELSE IF to_check = {}
                  THEN /\ pc' = "fold"
                       /\ symbols_to_check' = {}
                       /\ pending' = {}
                       /\ content' = <<>>
                       /\ symbol_names' = <<>>
                  ELSE /\ pc' = "second_pass"
                       /\ symbols_to_check' = to_check
                       /\ pending' = to_check
                       /\ UNCHANGED <<content, symbol_names>>
    /\ UNCHANGED <<api_symbols, cpp_files, file_idx, certified, found_symbols,
                   symbol_counts, returned, result>>
    /\ UNCHANGED batch_vars
    /\ UNCHANGED tool_vars

\* a second pass that ends at the first candidate it does not accept,
\* leaving the candidates after it unvisited
CheckSymbolUntilRejected ==
    /\ pc = "second_pass"
    /\ \E symbol_name \in pending :
          LET short_name == ShortName(symbol_name)
              match_found == MatchFound(content, short_name)
              accepted == match_found
                          /\ Accepts(content, symbol_name,
                                     KindOf(api_symbols, symbol_name))
          IN /\ certified' = IF match_found THEN certified \cup {symbol_name}
                             ELSE certified
             /\ found_symbols' = IF accepted THEN found_symbols \cup {symbol_name}
                                 ELSE found_symbols
             /\ IF pending = {symbol_name} \/ ~accepted
                THEN /\ pc' = "fold"
                     /\ NoCall
                ELSE /\ pending' = pending \ {symbol_name}
                     /\ UNCHANGED <<pc, content, symbol_names, chunk_i,
                                    symbols_to_check>>
    /\ UNCHANGED <<api_symbols, cpp_files, file_idx, symbol_counts, returned, result>>
    /\ UNCHANGED batch_vars
    /\ UNCHANGED tool_vars

\* a second pass that keeps only the last verdict: an accepted candidate
\* replaces the set, a rejected one empties it
CheckSymbolKeepsLast ==
    /\ pc = "second_pass"
    /\ \E symbol_name \in pending :
          LET short_name == ShortName(symbol_name)
              match_found == MatchFound(content, short_name)
              accepted == match_found
                          /\ Accepts(content, symbol_name,
                                     KindOf(api_symbols, symbol_name))
          IN /\ certified' = IF match_found THEN certified \cup {symbol_name}
                             ELSE certified
             /\ found_symbols' = IF accepted THEN {symbol_name} ELSE {}
             /\ IF pending = {symbol_name}
                THEN /\ pc' = "fold"
                     /\ NoCall
                ELSE /\ pending' = pending \ {symbol_name}
                     /\ UNCHANGED <<pc, content, symbol_names, chunk_i,
                                    symbols_to_check>>
    /\ UNCHANGED <<api_symbols, cpp_files, file_idx, symbol_counts, returned, result>>
    /\ UNCHANGED batch_vars
    /\ UNCHANGED tool_vars

\* one iteration of the second pass, for any candidate not visited yet (a
\* set is iterated in no particular order); after the last one
\* found_symbols is returned
CheckSymbol ==
    /\ pc = "second_pass"
    /\ \E symbol_name \in pending :
          LET short_name == ShortName(symbol_name)
              match_found == MatchFound(content, short_name)
              accepted == match_found
                          /\ Accepts(content, symbol_name,
                                     KindOf(api_symbols, symbol_name))
          IN /\ certified' = IF match_found THEN certified \cup {symbol_name}
                             ELSE certified
             /\ found_symbols' = IF accepted THEN found_symbols \cup {symbol_name}
                                 ELSE found_symbols
             /\ IF pending = {symbol_name}
                THEN /\ pc' = "fold"
                     /\ NoCall
                ELSE /\ pending' = pending \ {symbol_name}
                     /\ UNCHANGED <<pc, content, symbol_names, chunk_i,
                                    symbols_to_check>>
    /\ UNCHANGED <<api_symbols, cpp_files, file_idx, symbol_counts, returned, result>>
    /\ UNCHANGED batch_vars
    /\ UNCHANGED tool_vars

\* a tally that adds the occurrences of the file instead of one per file
CountFileOccurrences(counts, symbols_found) ==
    [n \in DOMAIN counts \cup symbols_found |->
        IF n \in symbols_found
        THEN (IF n \in DOMAIN counts THEN counts[n] ELSE 0)
             + Occurrences(cpp_files[file_idx].text, ShortName(n))
        ELSE counts[n]]

\* for symbol in symbols_found: symbol_counts[symbol] += 1
CountFile(counts, symbols_found) ==
    [n \in DOMAIN counts \cup symbols_found |->
        IF n \in symbols_found
        THEN (IF n \in DOMAIN counts THEN counts[n] ELSE 0) + 1
        ELSE counts[n]]

\* back in the loop of _analyze_plugin_repo with the set of the file
FoldFile ==
    /\ pc = "fold"
    /\ symbol_counts' = CountFile(symbol_counts, found_symbols)
    /\ returned' = Append(returned, found_symbols)
    /\ file_idx' = file_idx + 1
    /\ pc' = "loop"
    /\ UNCHANGED <<api_symbols, cpp_files, content, symbol_names, chunk_i,
                   symbols_to_check, pending, certified, found_symbols, result>>
    /\ UNCHANGED batch_vars
    /\ UNCHANGED tool_vars

\* the file list is exhausted: return dict(symbol_counts)
ReturnCounts ==
    /\ pc = "loop"
    /\ file_idx > Len(cpp_files)
    /\ result' = symbol_counts
    /\ pc' = "done"
    /\ UNCHANGED <<api_symbols, cpp_files, file_idx, content, symbol_names, chunk_i,
                   symbols_to_check, pending, certified, found_symbols,
                   symbol_counts, returned>>
    /\ UNCHANGED batch_vars
    /\ UNCHANGED tool_vars

Next ==
    \/ ReadFails
    \/ ReadFile
    \/ PrefilterChunk
    \/ CheckSymbol
    \/ FoldFile
    \/ ReturnCounts

\* no tree to walk: no directory, not even a root
NoTree == <<>>

\* no report asked for
NoReport == [none |-> TRUE]

\* the module api_parser imported, no parser constructed, no report asked for
NoTools ==
    /\ _LIBCLANG_INITIALIZED = FALSE
    /\ Config = [loaded |-> FALSE, library_file |-> FALSE]
    /\ libclang = [found |-> TRUE, loadable |-> TRUE]
    /\ init_runs = 0
    /\ parsers = <<>>
    /\ format = ""
    /\ report_results = <<>>
    /\ report = NoReport

\* _analyze_plugin_repo called on its own, with the files already found
NoBatch ==
    /\ repo_tree = NoTree
    /\ walk_stack = <<>>
    /\ plugins = <<>>
    /\ todo = <<>>
    /\ work_dir = <<>>
    /\ results = <<>>
    /\ calls = <<>>

\* the state _analyze_plugin_repo starts its loop in
Start(catalog, files) ==
    /\ api_symbols = catalog
    /\ cpp_files = files
    /\ pc = "loop"
    /\ file_idx = 1
    /\ content = <<>>
    /\ symbol_names = <<>>
    /\ chunk_i = 0
    /\ symbols_to_check = {}
    /\ pending = {}
    /\ certified = {}
    /\ found_symbols = {}
    /\ symbol_counts = <<>>
    /\ returned = <<>>
    /\ result = NoResult
    /\ NoBatch
    /\ NoTools

(***************************************************************************)
(* The inputs: catalogs and file texts                                     *)
(***************************************************************************)
FOO == <<"F", "o", "o">>
WIDGET == <<"W", "i", "d", "g", "e", "t">>
SHIP == <<"S", "h", "i", "p">>
TURN == <<"T", "u", "r", "n">>
ANCHOR == <<"A", "n", "c", "h", "o", "r">>
SHIP_TURN == SHIP \o SCOPE \o TURN
SHIP_ANCHOR == SHIP \o SCOPE \o ANCHOR

Symbol(name, kind) == [name |-> name, kind |-> kind]

\* the symbols a catalog is made of: each kind the second pass tells apart,
\* with and without a scope, with a short name of at most and of more than
\* five characters
Universe ==
    {Symbol(SHIP_TURN, "CXX_METHOD"), Symbol(SHIP_ANCHOR, "CXX_METHOD"),
     Symbol(SHIP_TURN, "FUNCTION_DECL"), Symbol(FOO, "FUNCTION_DECL"),
     Symbol(WIDGET, "FUNCTION_DECL"),
     Symbol(FOO, "CLASS_DECL"), Symbol(WIDGET, "CLASS_DECL"),
     Symbol(FOO, "STRUCT_DECL"),
     Symbol(SHIP_TURN, "ENUM_CONSTANT_DECL"), Symbol(SHIP_ANCHOR, "ENUM_CONSTANT_DECL"),
     Symbol(WIDGET, "ENUM_CONSTANT_DECL"),
     Symbol(FOO, "MACRO_DEFINITION"), Symbol(WIDGET, "MACRO_DEFINITION"),
     Symbol(FOO, "TYPEDEF_DECL"), Symbol(WIDGET, "TYPEDEF_DECL"),
     Symbol(SHIP_ANCHOR, "FIELD_DECL")}

\* lines that mention the short name S: in code, in comments, in strings
ScanLines(S) ==
    { S,                                                         \* a plain use
      S \o <<"(", ")", ";">>,                                    \* a call
      <<"/", "/", " ">> \o S,                                    \* a comment line
      <<" ", " ", "/", "/">> \o S,                               \* an indented comment line
      <<"x", ";", " ", "/", "/", " ">> \o S,                     \* a trailing comment after code
      <<"/", "*", " ">> \o S \o <<" ", "*", "/">>,               \* a block comment
      <<"\"">> \o S \o <<"\"">>,                                 \* a string literal
      <<"\"", "x", "\"", " ">> \o S,                             \* a use after a closed string
      <<"\"", "\\", "\"", " ">> \o S \o <<"\"">>,                \* a string with an escaped quote before the name
      <<"\"", "x", "\\", "\\", "\"", " ">> \o S,                 \* a use after a string ending in an escaped backslash
      <<"\"">> \o S,                                             \* an unterminated string
      <<"x">> \o S,                                              \* the name as the end of a longer identifier
      S \o <<"x", " ", "y">>,                                    \* the name as the start of a longer identifier
      S \o <<" ">> \o S,                                          \* two uses
      <<"\"">> \o S \o <<" ">> \o S \o <<"\"", " ", "\"">> \o S \o <<"\"">> \* three quoted mentions
    }

\* lines around the member call of S on P
MethodLines(P, S) ==
    { P \o <<":", ":">> \o S \o <<"(">>,                         \* Class::method(
      P \o <<".">> \o S \o <<" ", "(">>,                         \* obj.method ( with a space
      P \o <<":", ":">> \o S,                                    \* the qualified name, no parenthesis
      <<"/", "/", " ">> \o P \o <<":", ":">> \o S \o <<"(">>,    \* the pattern in a comment line
      <<"\"">> \o P \o <<".">> \o S \o <<"(", "\"">>,            \* the pattern in a string
      <<"x">> \o P \o <<":", ":">> \o S \o <<"(">>               \* the pattern after a longer class name
    }

\* lines around a declaration of type S
ClassLines(S) ==
    { S \o <<" ", "x", ";">>,                                    \* Class var
      S \o <<"*", " ", "x", ";">>,                               \* Class* var
      S \o <<" ", "&", "x", ";">>,                               \* Class &var
      S \o <<";">>,                                              \* the name and no identifier after it
      <<"/", "/", " ">> \o S \o <<" ", "x">>,                    \* a declaration in a comment line
      <<"\"">> \o S \o <<" ", "x", "\"">>                        \* a declaration in a string
    }

\* lines around the constant S of the enum P
EnumLines(P, S) ==
    { P \o <<":", ":">> \o S,                                    \* Enum::CONSTANT
      P \o <<":", ":">> \o S \o <<"x">>,                         \* Enum:: and a longer constant
      <<"u", "s", "i", "n", "g", " ">> \o P \o <<";">>,          \* using Enum;
      <<"u", "s", "i", "n", "g", " ", "n", "a", "m", "e", "s", "p", "a", "c", "e", " ">> \o P \o <<" ", ";">>, \* using namespace Enum ;
      <<"a", "b", "u", "s", "i", "n", "g", " ">> \o P \o <<";">>, \* a longer word ending in using
      <<"u", "s", "i", "n", "g", " ">> \o P,                     \* using Enum without the semicolon
      <<"/", "/", " ", "u", "s", "i", "n", "g", " ">> \o P \o <<";", " ">> \o S \* the using statement and the constant in a comment line
    }

\* the lines tried for one symbol: the mentions of its short name, and the
\* lines around the pattern its kind is checked with
LinesFor(sym) ==
    LET S == ShortName(sym.name)
        P == IF HasScope(sym.name) THEN ParentName(sym.name) ELSE SHIP
    IN ScanLines(S)
       \cup (IF sym.kind \in {"CXX_METHOD", "FUNCTION_DECL", "FIELD_DECL"}
             THEN MethodLines(P, S) ELSE {})
       \cup (IF sym.kind \in {"CLASS_DECL", "STRUCT_DECL", "TYPEDEF_DECL"}
             THEN ClassLines(S) ELSE {})
       \cup (IF sym.kind = "ENUM_CONSTANT_DECL" THEN EnumLines(P, S) ELSE {})

MaxLines == 2

\* the texts of at most n lines, each line one of L
RECURSIVE TextsOf(_, _)
TextsOf(L, n) ==
    IF n = 0 THEN {<<>>}
    ELSE LET shorter == TextsOf(L, n - 1)
         IN shorter \cup L
            \cup {t \o <<NEWLINE>> \o l : t \in shorter \ {<<>>}, l \in L}

File(text) == [readable |-> TRUE, text |-> text]
Unreadable == [readable |-> FALSE, text |-> <<>>]

\* one file and a catalog of one symbol
InitFile ==
    \E sym \in Universe :
       \E f \in {File(t) : t \in TextsOf(LinesFor(sym), MaxLines)} \cup {Unreadable} :
          Start(<<sym>>, <<f>>)

FileSpec == InitFile /\ [][Next]_vars

(***************************************************************************)
(* Repository runs: several files, each a short text                       *)
(***************************************************************************)
MaxFiles == 3

\* the catalogs of the repository runs: none, one and two symbols
RepoCatalogs ==
    {<<>>,
     <<Symbol(FOO, "MACRO_DEFINITION")>>,
     <<Symbol(FOO, "MACRO_DEFINITION"), Symbol(SHIP_TURN, "CXX_METHOD")>>,
     <<Symbol(WIDGET, "TYPEDEF_DECL"), Symbol(SHIP_ANCHOR, "ENUM_CONSTANT_DECL")>>}

\* the texts of the files of a repository run
RepoTexts ==
    {<<>>,
     FOO \o <<"(", ")", ";", " ">> \o FOO,
     <<"/", "/", " ">> \o FOO,
     SHIP_TURN \o <<"(", ")", ";", " ">> \o FOO,
     WIDGET \o <<" ", "x", ";", NEWLINE>> \o SHIP_ANCHOR,
     ANCHOR \o <<" ">> \o ANCHOR,
     TURN \o <<";", " ">> \o FOO}

RepoFiles == {File(t) : t \in RepoTexts} \cup {Unreadable}

\* the file lists of at most n files
RECURSIVE FileLists(_)
FileLists(n) ==
    IF n = 0 THEN {<<>>}
    ELSE LET shorter == FileLists(n - 1)
         IN shorter \cup {Append(l, f) : l \in shorter, f \in RepoFiles}

Init ==
    \E catalog \in RepoCatalogs :
       \E files \in FileLists(MaxFiles) :
          Start(catalog, files)

Spec == Init /\ [][Next]_vars

(***************************************************************************)
(* Properties of the repository tally                                      *)
(***************************************************************************)
\* the files of the list whose returned set holds the symbol
FilesWith(name) == {i \in 1..Len(returned) : name \in returned[i]}

\* the file the run is at
CurrentFile == cpp_files[file_idx]

C2_ReadFailureIsLocal ==
    /\ [][(pc = "loop" /\ file_idx <= Len(cpp_files) /\ ~CurrentFile.readable)
            => (pc' = "fold" /\ found_symbols' = {})]_vars
    /\ [][(pc = "fold" /\ ~CurrentFile.readable)
            => (/\ symbol_counts' = symbol_counts
                /\ returned' = Append(returned, {})
                /\ file_idx' = file_idx + 1
                /\ pc' = "loop")]_vars
    /\ [](pc \in {"loop", "prefilter", "second_pass", "fold", "done"})
    /\ [](pc = "done" => Len(returned) = Len(cpp_files))

\* a run that has returned a tally counting a file that came after an
\* unreadable one
C2_Witness ==
    /\ pc = "done"
    /\ \E i, j \in 1..Len(cpp_files) :
          /\ i < j
          /\ ~cpp_files[i].readable
          /\ returned[i] = {}
          /\ returned[j] # {}
          /\ \A name \in returned[j] : result[name] >= 1

(***************************************************************************)
(* Properties of one file's analysis.  The text is described here by       *)
(* positions: where the short name stands as a whole word, on which line,  *)
(* and between which quotes.                                               *)
(***************************************************************************)
\* _analyze_file_content has read the file and returned
FileAnalysed == pc = "fold" /\ CurrentFile.readable

Text == CurrentFile.text

Catalog == {api_symbols[k] : k \in 1..Len(api_symbols)}

\* no word character stands before position i, none at position i
StartsWord(t, i) == i = 1 \/ ~IsWordChar(t[i - 1])
EndsWord(t, i) == i > Len(t) \/ ~IsWordChar(t[i])

\* w stands at position i of t as a whole word
WholeWordAt(t, i, w) ==
    StartsWord(t, i) /\ LiteralAt(t, i, w) /\ EndsWord(t, i + Len(w))

\* the positions of the whole-word occurrences of w in the raw text
WordPositions(t, w) == {i \in 1..Len(t) : WholeWordAt(t, i, w)}

\* the first position of the line position i is on
LineStartOf(t, i) ==
    CHOOSE b \in 1..i :
        /\ b = 1 \/ t[b - 1] = NEWLINE
        /\ \A k \in b..(i - 1) : t[k] # NEWLINE

\* the positions a..b hold only blanks (none, when the range is empty)
Blank(t, a, b) == \A k \in a..b : k <= Len(t) /\ IsSpace(t[k])

\* position i is on a line whose first characters after blanks are //
OnCommentLine(t, i) ==
    LET b == LineStartOf(t, i)
    IN \E j \in b..i :
          /\ LiteralAt(t, j, <<"/", "/">>)
          /\ \A k \in b..(j - 1) : IsSpace(t[k]) /\ t[k] # NEWLINE

\* position i is inside a double-quoted span of its line: an odd number of
\* quotes, not counting those right after a backslash, stands before it
InQuotedSpan(t, i) ==
    LET b == LineStartOf(t, i)
        quotes == {k \in b..(i - 1) :
                      t[k] = QUOTE /\ (k = b \/ t[k - 1] # BACKSLASH)}
    IN Cardinality(quotes) % 2 = 1

\* C3: a symbol, of any kind, all of whose whole-word occurrences are on
\* lines that start with // after trimming is not in the returned set.
C3_CommentLinesExcluded ==
    FileAnalysed =>
        \A sym \in Catalog :
            (\A i \in WordPositions(Text, ShortName(sym.name)) : OnCommentLine(Text, i))
                => sym.name \notin found_symbols

\* a method whose only mention is the member call in a comment line, above
\* or below a line of code, and that is not returned
C3_Witness ==
    /\ FileAnalysed
    /\ \E sym \in Catalog :
          /\ sym.kind = "CXX_METHOD"
          /\ WordPositions(Text, ShortName(sym.name)) # {}
          /\ \A i \in WordPositions(Text, ShortName(sym.name)) : OnCommentLine(Text, i)
          /\ MethodPatternFound(Text, ParentName(sym.name), ShortName(sym.name))
          /\ \E k \in 1..Len(Text) : ~OnCommentLine(Text, k) /\ Text[k] = "x"
          /\ sym.name \notin found_symbols

\* C4: a symbol, of any kind, all of whose whole-word occurrences are
\* inside double-quoted spans of their lines is not in the returned set,
\* whatever else the raw text holds.
C4_QuotedSpansExcluded ==
    FileAnalysed =>
        \A sym \in Catalog :
            (\A i \in WordPositions(Text, ShortName(sym.name)) : InQuotedSpan(Text, i))
                => sym.name \notin found_symbols

\* a method whose only mention is the member call inside a string that
\* also holds an escaped quote, and that is not returned
C4_Witness ==
    /\ FileAnalysed
    /\ \E sym \in Catalog :
          /\ sym.kind = "CXX_METHOD"
          /\ WordPositions(Text, ShortName(sym.name)) # {}
          /\ \A i \in WordPositions(Text, ShortName(sym.name)) : InQuotedSpan(Text, i)
          /\ MethodPatternFound(Text, ParentName(sym.name), ShortName(sym.name))
          /\ \E k \in 2..Len(Text) : Text[k] = QUOTE /\ Text[k - 1] = BACKSLASH
          /\ sym.name \notin found_symbols

(***************************************************************************)
(* The usages the kind-specific rules look for, described by positions     *)
(***************************************************************************)
IsScopedCall(sym) ==
    sym.kind \in {"CXX_METHOD", "FUNCTION_DECL"} /\ HasScope(sym.name)

IsType(sym) == sym.kind \in {"CLASS_DECL", "STRUCT_DECL"}

IsScopedConstant(sym) == sym.kind = "ENUM_CONSTANT_DECL" /\ HasScope(sym.name)

IsPlainName(sym) ==
    sym.kind \in {"MACRO_DEFINITION", "FUNCTION_DECL"} /\ ~HasScope(sym.name)

\* no structural rule applies to the symbol
IsFallbackOnly(sym) ==
    ~IsScopedCall(sym) /\ ~IsType(sym) /\ ~IsScopedConstant(sym) /\ ~IsPlainName(sym)

\* P::S( or P.S(, blanks allowed before the parenthesis, P starting a word
HasMemberCall(t, P, S) ==
    \E i \in 1..Len(t) : \E sep \in {SCOPE, <<".">>} :
        LET e == i + Len(P) + Len(sep) + Len(S)
        IN /\ StartsWord(t, i)
           /\ LiteralAt(t, i, P \o sep \o S)
           /\ \E j \in e..Len(t) : t[j] = "(" /\ Blank(t, e, j - 1)

\* between a..b: blanks and at most one * or &
IsDeclaratorGap(t, a, b) ==
    /\ \A k \in a..b : IsSpace(t[k]) \/ t[k] \in {"*", "&"}
    /\ Cardinality({k \in a..b : t[k] \in {"*", "&"}}) <= 1

\* S as a whole identifier, then an optional * or &, then an identifier
HasDeclaration(t, S) ==
    \E i \in WordPositions(t, S) :
        \E j \in (i + Len(S))..Len(t) :
            IsWordChar(t[j]) /\ IsDeclaratorGap(t, i + Len(S), j - 1)

\* S at the start of a word, not necessarily the whole of it, then blanks
\* and an optional * or &, then a word character
HasDeclarationPrefix(t, S) ==
    \E i \in 1..Len(t) :
        /\ StartsWord(t, i)
        /\ LiteralAt(t, i, S)
        /\ \E j \in (i + Len(S))..Len(t) :
              IsWordChar(t[j]) /\ IsDeclaratorGap(t, i + Len(S), j - 1)

\* P::S as whole words
HasQualifiedConstant(t, P, S) ==
    \E i \in 1..Len(t) : WholeWordAt(t, i, P \o SCOPE \o S)

\* the positions where a statement "using [namespace] P ;" ends (its
\* semicolon); with word, "using" has to start a word
UsingStatementEnds(t, P, word) ==
    LET USING == <<"u", "s", "i", "n", "g">>
        NAMESPACE == <<"n", "a", "m", "e", "s", "p", "a", "c", "e">>
    IN {semi \in 1..Len(t) :
          /\ t[semi] = ";"
          /\ \E u \in 1..semi : \E n \in (u + Len(USING) + 1)..semi :
                /\ LiteralAt(t, u, USING)
                /\ word => StartsWord(t, u)
                /\ LiteralAt(t, n, P)
                /\ Blank(t, n + Len(P), semi - 1)
                /\ \/ Blank(t, u + Len(USING), n - 1)
                   \/ \E m \in (u + Len(USING) + 1)..(n - Len(NAMESPACE) - 1) :
                         /\ Blank(t, u + Len(USING), m - 1)
                         /\ LiteralAt(t, m, NAMESPACE)
                         /\ Blank(t, m + Len(NAMESPACE), n - 1)}

\* a using statement for P and, later in the text, S as a whole word
HasUsingThenConstant(t, P, S, word) ==
    \E semi \in UsingStatementEnds(t, P, word) :
        \E w \in WordPositions(t, S) : w > semi

\* the rarity rule: 1 to 4 whole-word occurrences in the raw text, and a
\* short name of more than 5 characters
IsRare(t, S) ==
    /\ Cardinality(WordPositions(t, S)) \in 1..4
    /\ Len(S) > 5

\* the structural usage of the symbol's kind is in the text
HasStructuralUsage(t, sym) ==
    LET S == ShortName(sym.name)
    IN \/ IsScopedCall(sym) /\ HasMemberCall(t, ParentName(sym.name), S)
       \/ IsType(sym) /\ HasDeclaration(t, S)
       \/ IsScopedConstant(sym)
          /\ \/ HasQualifiedConstant(t, ParentName(sym.name), S)
             \/ HasUsingThenConstant(t, ParentName(sym.name), S, TRUE)

\* C5: a certified symbol whose kind's structural usage is in the file is
\* returned, whatever the length of its short name and the number of its
\* occurrences.
C5_StructuralUsageAccepted ==
    FileAnalysed =>
        \A sym \in Catalog :
            (sym.name \in certified /\ HasStructuralUsage(Text, sym))
                => sym.name \in found_symbols

\* a returned symbol with a short name of at most 5 characters that occurs
\* 5 times or more, its structural usage being in the file
C5_Witness ==
    /\ FileAnalysed
    /\ \E sym \in Catalog :
          /\ sym.name \in certified
          /\ HasStructuralUsage(Text, sym)
          /\ Len(ShortName(sym.name)) <= 5
          /\ Cardinality(WordPositions(Text, ShortName(sym.name))) >= 5
          /\ sym.name \in found_symbols

\* C6 as claimed: a certified method or function with a parent scope is
\* returned if and only if the text holds Parent::short( or Parent.short(
C6_Claimed ==
    FileAnalysed =>
        \A sym \in Catalog :
            (IsScopedCall(sym) /\ sym.name \in certified)
                => (sym.name \in found_symbols
                    <=> HasMemberCall(Text, ParentName(sym.name), ShortName(sym.name)))

\* C6 as amended: a certified method or function with a parent scope is
\* returned if and only if the text holds Parent::short( or Parent.short(,
\* or the rarity rule holds for its short name.
C6_MemberCallOrRare ==
    FileAnalysed =>
        \A sym \in Catalog :
            (IsScopedCall(sym) /\ sym.name \in certified)
                => (sym.name \in found_symbols
                    <=> \/ HasMemberCall(Text, ParentName(sym.name), ShortName(sym.name))
                        \/ IsRare(Text, ShortName(sym.name)))

\* a certified method without the member call that is returned as rare
C6_Witness ==
    /\ FileAnalysed
    /\ \E sym \in Catalog :
          /\ IsScopedCall(sym)
          /\ sym.name \in certified
          /\ ~HasMemberCall(Text, ParentName(sym.name), ShortName(sym.name))
          /\ IsRare(Text, ShortName(sym.name))
          /\ sym.name \in found_symbols

C9_PlainNameAcceptedOnOccurrence ==
    FileAnalysed =>
        \A sym \in Catalog :
            IsPlainName(sym)
                => (sym.name \in found_symbols
                    <=> \E i \in WordPositions(Text, ShortName(sym.name)) :
                            ~OnCommentLine(Text, i) /\ ~InQuotedSpan(Text, i))

\* a returned macro of a short name that occurs 5 times, in code, in a
\* comment line or in a string
C9_Witness ==
    /\ FileAnalysed
    /\ \E sym \in Catalog :
          /\ sym.kind = "MACRO_DEFINITION"
          /\ Len(ShortName(sym.name)) <= 5
          /\ Cardinality(WordPositions(Text, ShortName(sym.name))) >= 5
          /\ \E i \in WordPositions(Text, ShortName(sym.name)) :
                OnCommentLine(Text, i) \/ InQuotedSpan(Text, i)
          /\ sym.name \in found_symbols

\* C10: a certified symbol to which no structural rule applies is returned
\* if and only if the whole-word occurrences of its short name in the raw
\* text, comments and strings included, number at least 1 and less than 5,
\* and the short name is longer than 5 characters.
C10_FallbackIsRarity ==
    FileAnalysed =>
        \A sym \in Catalog :
            (IsFallbackOnly(sym) /\ sym.name \in certified)
                => (sym.name \in found_symbols
                    <=> /\ Cardinality(WordPositions(Text, ShortName(sym.name))) >= 1
                        /\ Cardinality(WordPositions(Text, ShortName(sym.name))) < 5
                        /\ Len(ShortName(sym.name)) > 5)

\* a certified symbol of a long name that is not returned: it occurs twice
\* in code and three times in strings
C10_Witness ==
    /\ FileAnalysed
    /\ \E sym \in Catalog :
          /\ IsFallbackOnly(sym)
          /\ sym.name \in certified
          /\ Len(ShortName(sym.name)) > 5
          /\ Cardinality(WordPositions(Text, ShortName(sym.name))) = 5
          /\ Cardinality({i \in WordPositions(Text, ShortName(sym.name)) :
                             InQuotedSpan(Text, i)}) = 3
          /\ sym.name \notin found_symbols

\* C11: a method or function with a parent scope whose short name has at
\* most 5 characters is not returned for a file that holds neither
\* Parent::short( nor Parent.short(, however often the short name occurs.
C11_ShortScopedCallNeedsPattern ==
    FileAnalysed =>
        \A sym \in Catalog :
            (/\ IsScopedCall(sym)
             /\ Len(ShortName(sym.name)) <= 5
             /\ ~HasMemberCall(Text, ParentName(sym.name), ShortName(sym.name)))
                => sym.name \notin found_symbols

\* a certified method of a short name of 4 characters that occurs fewer
\* than 5 times, is called without its parent, and is not returned
C11_Witness ==
    /\ FileAnalysed
    /\ \E sym \in Catalog :
          /\ IsScopedCall(sym)
          /\ Len(ShortName(sym.name)) = 4
          /\ sym.name \in certified
          /\ Cardinality(WordPositions(Text, ShortName(sym.name))) \in 1..4
          /\ \E i \in WordPositions(Text, ShortName(sym.name)) :
                LiteralAt(Text, i + 4, <<"(">>)
          /\ ~HasMemberCall(Text, ParentName(sym.name), ShortName(sym.name))
          /\ sym.name \notin found_symbols

(***************************************************************************)
(* Properties of _analyze_file_content as a function of its inputs         *)
(***************************************************************************)
\* C12: two runs of _analyze_file_content on the same catalog and the same
\* file return the same set, in whatever order each run visits its
\* candidates: any two files of the list that are equal have equal
\* returned sets.
C12_SameInputsSameSet ==
    \A i, j \in 1..Len(returned) :
        cpp_files[i] = cpp_files[j] => returned[i] = returned[j]

\* the same text analysed twice with two candidates, one accepted and one
\* rejected, both runs returning the accepted one
C12_Witness ==
    /\ pc = "done"
    /\ \E i, j \in 1..Len(returned) :
          /\ i < j
          /\ cpp_files[i] = cpp_files[j]
          /\ cpp_files[i].readable
          /\ \E a, b \in Catalog :
                /\ a # b
                /\ WordPositions(cpp_files[i].text, ShortName(a.name)) # {}
                /\ WordPositions(cpp_files[i].text, ShortName(b.name)) # {}
                /\ returned[i] = {a.name}
                /\ returned[j] = {a.name}

(***************************************************************************)
(* Properties of the first pass                                            *)
(***************************************************************************)
\* _analyze_file_content is running on a file it could read
FileInAnalysis ==
    /\ pc \in {"prefilter", "second_pass", "fold"}
    /\ CurrentFile.readable

\* the short name is in the text, as a part of a longer identifier
IsInsideIdentifier(t, i, S) ==
    /\ LiteralAt(t, i, S)
    /\ ~StartsWord(t, i) \/ ~EndsWord(t, i + Len(S))

\* C14: a symbol whose short name has no whole-word occurrence in the file
\* is at no moment of the file's analysis a candidate of the first pass, a
\* candidate being visited, certified, or in the accepted set; so it is not
\* returned, even when the short name is a part of longer identifiers.
C14_SubstringsNeverShortlisted ==
    FileInAnalysis =>
        \A sym \in Catalog :
            WordPositions(Text, ShortName(sym.name)) = {}
                => /\ sym.name \notin symbols_to_check
                   /\ sym.name \notin pending
                   /\ sym.name \notin certified
                   /\ sym.name \notin found_symbols

\* a macro whose name is in the file only as the beginning and as the end
\* of longer identifiers, and that is not returned
C14_Witness ==
    /\ FileAnalysed
    /\ \E sym \in Catalog :
          /\ sym.kind = "MACRO_DEFINITION"
          /\ WordPositions(Text, ShortName(sym.name)) = {}
          /\ \E i \in 1..Len(Text) :
                /\ IsInsideIdentifier(Text, i, ShortName(sym.name))
                /\ StartsWord(Text, i)
          /\ \E i \in 1..Len(Text) :
                /\ IsInsideIdentifier(Text, i, ShortName(sym.name))
                /\ EndsWord(Text, i + Len(ShortName(sym.name)))
          /\ sym.name \notin found_symbols

(***************************************************************************)
(* Comments the scanner does not know                                      *)
(***************************************************************************)
\* position i follows a // on its line, and code stands before that //
InTrailingComment(t, i) ==
    LET b == LineStartOf(t, i)
    IN /\ ~OnCommentLine(t, i)
       /\ \E j \in b..(i - 2) : LiteralAt(t, j, <<"/", "/">>)

\* position i follows a /* that no */ has closed yet
InBlockComment(t, i) ==
    \E a \in 1..(i - 2) :
        /\ LiteralAt(t, a, <<"/", "*">>)
        /\ \A k \in (a + 2)..(i - 1) : ~LiteralAt(t, k, <<"*", "/">>)

InComment(t, i) == InTrailingComment(t, i) \/ InBlockComment(t, i)

\* C20: a symbol is certified exactly when its short name occurs as a
\* whole word on a line whose trimmed text does not start with //, outside
\* the quoted spans of that line; that the occurrence follows a // on a
\* line of code, or stands inside /* */, changes nothing.  So a macro
\* mentioned only in such comments, at least once outside quotes and not
\* on a // line, is returned.
C20_OnlyCommentLinesExcluded ==
    FileAnalysed =>
        \A sym \in Catalog :
            LET S == ShortName(sym.name)
                visible == {i \in WordPositions(Text, S) :
                               ~OnCommentLine(Text, i) /\ ~InQuotedSpan(Text, i)}
            IN /\ sym.name \in certified <=> visible # {}
               /\ (/\ sym.kind = "MACRO_DEFINITION"
                   /\ \E i \in visible : InComment(Text, i))
                     => sym.name \in found_symbols

\* a returned macro all of whose mentions are in comments: one after code
\* on its line, one inside /* */
C20_Witness ==
    /\ FileAnalysed
    /\ \E sym \in Catalog :
          LET S == ShortName(sym.name)
          IN /\ sym.kind = "MACRO_DEFINITION"
             /\ \A i \in WordPositions(Text, S) : InComment(Text, i)
             /\ \E i \in WordPositions(Text, S) : InTrailingComment(Text, i)
             /\ \E i \in WordPositions(Text, S) :
                   InBlockComment(Text, i) /\ ~InTrailingComment(Text, i)
             /\ sym.name \in certified
             /\ sym.name \in found_symbols

(***************************************************************************)
(* The empty catalog                                                       *)
(***************************************************************************)
\* C15: with an empty catalog no file's analysis enters the chunk loop or
\* the second pass, nothing is raised, every file's returned set is empty,
\* the tally stays empty, every file of the list is analysed, and the
\* tally returned is empty.
C15_EmptyCatalogEmptyTally ==
    api_symbols = <<>> =>
        /\ pc \in {"loop", "fold", "done"}
        /\ found_symbols = {}
        /\ \A i \in 1..Len(returned) : returned[i] = {}
        /\ symbol_counts = <<>>
        /\ pc = "done" => (result = <<>> /\ Len(returned) = Len(cpp_files))

\* a run with an empty catalog that has returned after a file with text
\* and an unreadable file
C15_Witness ==
    /\ api_symbols = <<>>
    /\ pc = "done"
    /\ result = <<>>
    /\ \E i, j \in 1..Len(cpp_files) :
          /\ cpp_files[i].readable
          /\ cpp_files[i].text # <<>>
          /\ ~cpp_files[j].readable
          /\ returned[i] = {}
          /\ returned[j] = {}

(***************************************************************************)
(* Catalogs of more than one chunk, and names that are no identifiers      *)
(***************************************************************************)
\* the spelling of a destructor and its qualified name
TILDE_FOO == <<"~">> \o FOO
FOO_TILDE_FOO == FOO \o SCOPE \o TILDE_FOO

\* the n binary digits of k
RECURSIVE Bits(_, _)
Bits(k, n) ==
    IF n = 0 THEN <<>>
    ELSE Bits(k \div 2, n - 1) \o <<IF k % 2 = 1 THEN "1" ELSE "0">>

\* names of 8 characters that fill a catalog: B0000001, B0000010, ...
FillerName(k) == <<"B">> \o Bits(k, 7)

\* as many macros as a chunk holds
Fillers == [k \in 1..chunk_size |-> Symbol(FillerName(k), "MACRO_DEFINITION")]

\* catalogs of one chunk, and catalogs whose longest and shortest names
\* fall into two chunks
ChunkCatalogs ==
    {<<Symbol(FOO, "CLASS_DECL"), Symbol(FOO_TILDE_FOO, "DESTRUCTOR")>>,
     <<Symbol(FOO_TILDE_FOO, "DESTRUCTOR")>> \o Fillers \o <<Symbol(FOO, "CLASS_DECL")>>,
     <<Symbol(WIDGET, "MACRO_DEFINITION"), Symbol(SHIP_TURN, "CXX_METHOD")>>,
     <<Symbol(SHIP_TURN, "CXX_METHOD")>> \o Fillers \o <<Symbol(TURN, "FUNCTION_DECL")>>}

\* the texts of the files analysed with these catalogs
ChunkTexts ==
    {<<>>,
     <<"x">> \o TILDE_FOO \o <<" ", "y">>,
     FOO \o <<" ", "y">>,
     TILDE_FOO,
     <<"a">> \o TILDE_FOO \o <<"(", ")", ";", " ">> \o FOO \o <<" ", "y">>,
     <<"/", "/", " ">> \o FOO \o <<" ", "y">>,
     TURN \o <<"(", ")", ";">>,
     SHIP_TURN \o <<"(", ")", ";">>,
     WIDGET \o <<" ">> \o TURN,
     FillerName(1) \o <<";", " ">> \o FOO \o <<" ", "x">>}

\* one file and one of these catalogs
InitChunks ==
    \E catalog \in ChunkCatalogs :
       \E f \in {File(t) : t \in ChunkTexts} \cup {Unreadable} :
          Start(catalog, <<f>>)

ChunkSpec == InitChunks /\ [][Next]_vars

\* the chunk loop run with chunks of the given size: symbols_to_check at
\* its end
CandidatesWith(text, names, size) ==
    UNION {ChunkCandidates(text, Chunk(names, i, size)) :
              i \in {k \in 0..(Len(names) - 1) : k % size = 0}}

\* the second pass over the candidates: found_symbols at its end
AcceptedOf(text, symbols, candidates) ==
    {symbol_name \in candidates :
        /\ MatchFound(text, ShortName(symbol_name))
        /\ Accepts(text, symbol_name, KindOf(symbols, symbol_name))}

\* what _analyze_file_content returns when its chunks have the given size
AnalyzeWith(text, symbols, size) ==
    AcceptedOf(text, symbols,
               CandidatesWith(text, SortByLenDesc(Keys(symbols)), size))

\* w is in the text between two word boundaries: at each end, a word
\* character on one side only
OccursAsWord(t, w) ==
    \E i \in 1..Len(t) :
        /\ LiteralAt(t, i, w)
        /\ StartsWord(t, i) # StartsWord(t, i + 1)
        /\ EndsWord(t, i + Len(w)) # EndsWord(t, i + Len(w) - 1)

\* the catalog entries whose short name is in the text as a whole word
WholeWordNames(t) ==
    {sym.name : sym \in {s \in Catalog : OccursAsWord(t, ShortName(s.name))}}

\* C13 as claimed: the set returned for a file, the catalog being scanned
\* in chunks of 100, is the set returned when the catalog is scanned as one
\* single chunk, and when it is scanned in chunks of one name.
C13_ChunkingInvariance ==
    FileAnalysed =>
        \A size \in {1, Len(api_symbols)} :
            found_symbols = AnalyzeWith(Text, api_symbols, size)

\* C18 as claimed: when the chunk loop has ended with candidates, they are
\* exactly the catalog entries whose short name is in the raw text as a
\* whole word, whatever chunk an entry is in; and the returned set is made
\* of such entries only.
C18_CandidatesAreWholeWordNames ==
    /\ pc = "second_pass" => symbols_to_check = WholeWordNames(content)
    /\ FileAnalysed => found_symbols \subseteq WholeWordNames(Text)

\* C19 as claimed: in the sorted list that is cut into chunks, a name never
\* comes before a name whose short name is longer.
C19_SortedByShortNameLength ==
    pc = "prefilter" =>
        \A i, j \in 1..Len(symbol_names) :
            i < j => Len(ShortName(symbol_names[i])) >= Len(ShortName(symbol_names[j]))

(***************************************************************************)
(* find_cpp_files: the walk of a repository                                *)
(***************************************************************************)
\* the directory names the walk does not descend into
excludes ==
    <<"build", "cmake", "CMake", "libs", "lib", "extern", "external",
      "3rdparty", "third_party", "tests", "test", "doc", "docs", "data",
      "resources", "res", ".git">>

\* d in excludes
IsExcluded(d) == \E k \in 1..Len(excludes) : excludes[k] = d

\* the suffixes file.endswith() is given
CPP_SUFFIXES ==
    {<<".", "c", "p", "p">>, <<".", "c", "x", "x">>, <<".", "c", "c">>, <<".", "c">>,
     <<".", "h", "p", "p">>, <<".", "h", "x", "x">>, <<".", "h", "h">>, <<".", "h">>}

\* str.endswith(suffix)
EndsWith(name, suffix) ==
    /\ Len(name) >= Len(suffix)
    /\ SubSeq(name, Len(name) - Len(suffix) + 1, Len(name)) = suffix

IsCppFile(name) == \E suffix \in CPP_SUFFIXES : EndsWith(name, suffix)

\* root_path / file: the directory, as the names from the repository root
\* down, and the file with what reading it gives
FoundFile(root, file) ==
    [dir |-> root, name |-> file.name, readable |-> file.readable, text |-> file.text]

\* the lists the walk leaves behind at a directory: the subdirectories it
\* will descend into and the files it appends
KeptDirs(tree, root) == SelectSeq(tree[root].dirs, LAMBDA d : ~IsExcluded(d))

KeptFiles(tree, root) ==
    LET files == SelectSeq(tree[root].files, LAMBDA f : IsCppFile(f.name))
    IN [k \in 1..Len(files) |-> FoundFile(root, files[k])]

\* a walk whose list of subdirectories is filtered into a new list that
\* os.walk does not see: every subdirectory is descended into
VisitDirectoryUnpruned ==
    /\ pc = "walk"
    /\ repo_tree # NoTree
    /\ walk_stack # <<>>
    /\ LET root == Head(walk_stack)
           dirs == repo_tree[root].dirs
       IN /\ cpp_files' = cpp_files \o KeptFiles(repo_tree, root)
          /\ walk_stack' = [k \in 1..Len(dirs) |-> Append(root, dirs[k])]
                           \o Tail(walk_stack)
    /\ UNCHANGED <<api_symbols, pc, file_idx, content, symbol_names, chunk_i,
                   symbols_to_check, pending, certified, found_symbols,
                   symbol_counts, returned, result, repo_tree, plugins, todo,
                   work_dir, results, calls>>
    /\ UNCHANGED tool_vars

\* if not repo_dir.exists(): return []
MissingRepo ==
    /\ pc = "walk"
    /\ repo_tree = NoTree
    /\ cpp_files' = <<>>
    /\ pc' = "loop"
    /\ UNCHANGED <<api_symbols, file_idx, content, symbol_names, chunk_i,
                   symbols_to_check, pending, certified, found_symbols,
                   symbol_counts, returned, result>>
    /\ UNCHANGED batch_vars
    /\ UNCHANGED tool_vars

\* one iteration of "for root, dirs, files in os.walk(repo_dir)": dirs is
\* pruned in place, so os.walk, which goes top-down, descends into the
\* directories that are left, in their order, before it goes on with the
\* directories it still had to visit
VisitDirectory ==
    /\ pc = "walk"
    /\ repo_tree # NoTree
    /\ walk_stack # <<>>
    /\ LET root == Head(walk_stack)
           dirs == KeptDirs(repo_tree, root)
       IN /\ cpp_files' = cpp_files \o KeptFiles(repo_tree, root)
          /\ walk_stack' = [k \in 1..Len(dirs) |-> Append(root, dirs[k])]
                           \o Tail(walk_stack)
    /\ UNCHANGED <<api_symbols, pc, file_idx, content, symbol_names, chunk_i,
                   symbols_to_check, pending, certified, found_symbols,
                   symbol_counts, returned, result, repo_tree, plugins, todo,
                   work_dir, results, calls>>
    /\ UNCHANGED tool_vars

\* the walk is over: return cpp_files, and _analyze_plugin_repo starts its
\* loop
ReturnFiles ==
    /\ pc = "walk"
    /\ repo_tree # NoTree
    /\ walk_stack = <<>>
    /\ pc' = "loop"
    /\ UNCHANGED <<api_symbols, cpp_files, file_idx, content, symbol_names, chunk_i,
                   symbols_to_check, pending, certified, found_symbols,
                   symbol_counts, returned, result>>
    /\ UNCHANGED batch_vars
    /\ UNCHANGED tool_vars

FindCppFiles ==
    \/ MissingRepo
    \/ VisitDirectory
    \/ ReturnFiles

\* the walk of a tree is about to start (of no tree, when repo_dir does not
\* exist)
StartWalk(catalog, tree) ==
    /\ api_symbols = catalog
    /\ cpp_files = <<>>
    /\ pc = "walk"
    /\ file_idx = 1
    /\ content = <<>>
    /\ symbol_names = <<>>
    /\ chunk_i = 0
    /\ symbols_to_check = {}
    /\ pending = {}
    /\ certified = {}
    /\ found_symbols = {}
    /\ symbol_counts = <<>>
    /\ returned = <<>>
    /\ result = NoResult
    /\ repo_tree = tree
    /\ walk_stack = IF tree = NoTree THEN <<>> ELSE << <<>> >>
    /\ plugins = <<>>
    /\ todo = <<>>
    /\ work_dir = <<>>
    /\ results = <<>>
    /\ calls = <<>>
    /\ NoTools

\* the directory names of the trees walked, in the order a listing gives
\* them
DIR_NAMES == <<"src", "build", "Build", "test", "docs", "vendor">>

MaxDepth == 2

\* the paths of at most n names below the root
RECURSIVE Paths(_)
Paths(n) ==
    IF n = 0 THEN {<<>>}
    ELSE LET shorter == Paths(n - 1)
         IN shorter \cup {Append(p, DIR_NAMES[k]) : p \in shorter, k \in 1..Len(DIR_NAMES)}

\* a path with the directories above it
Ancestors(p) == {SubSeq(p, 1, k) : k \in 0..Len(p)}

SourceFile(name, text) == [name |-> name, readable |-> TRUE, text |-> text]

\* the files every directory of a walked tree holds: a.cpp, a.h, a.txt
WALK_FILES ==
    <<SourceFile(<<"a", ".", "c", "p", "p">>, FOO \o <<"(", ")", ";">>),
      SourceFile(<<"a", ".", "h">>, <<>>),
      SourceFile(<<"a", ".", "t", "x", "t">>, FOO)>>

\* the tree made of the given directories
TreeOf(paths) ==
    [p \in paths |->
        [dirs |-> SelectSeq(DIR_NAMES, LAMBDA d : Append(p, d) \in paths),
         files |-> WALK_FILES]]

\* trees with one branch of at most MaxDepth directories and, next to it,
\* at most one directory under the root
WalkTrees ==
    {TreeOf(Ancestors(p) \cup Ancestors(q)) : p \in Paths(MaxDepth), q \in Paths(1)}

InitWalk ==
    \E tree \in WalkTrees \cup {NoTree} :
        StartWalk(<<Symbol(FOO, "MACRO_DEFINITION")>>, tree)

WalkSpec == InitWalk /\ [][FindCppFiles]_vars

\* find_cpp_files has returned the list of an existing repository
FilesFound == pc = "loop" /\ repo_tree # NoTree

\* one of the names is the name of a directory on the path
IsUnder(dir, names) == \E k \in 1..Len(dir) : dir[k] \in names

\* C17 as claimed: no file of the list is under a directory named build,
\* test, docs or vendor, at any depth.
C17_Claimed ==
    \A i \in 1..Len(cpp_files) :
        ~IsUnder(cpp_files[i].dir, {"build", "test", "docs", "vendor"})

\* C17 as amended: no file of the list is under a directory whose name is
\* one of the exclusion list, at any depth; and the list returned holds
\* every file with a C++ suffix that is under no such directory, those
\* under vendor and under Build included.
C17_ExcludedNamesPruned ==
    /\ \A i \in 1..Len(cpp_files) :
          ~IsUnder(cpp_files[i].dir, {excludes[k] : k \in 1..Len(excludes)})
    /\ FilesFound =>
          \A p \in DOMAIN repo_tree :
              ~IsUnder(p, {excludes[k] : k \in 1..Len(excludes)}) =>
                  \A k \in 1..Len(repo_tree[p].files) :
                      IsCppFile(repo_tree[p].files[k].name) =>
                          \E i \in 1..Len(cpp_files) :
                              /\ cpp_files[i].dir = p
                              /\ cpp_files[i].name = repo_tree[p].files[k].name

\* a tree with src/build and vendor: the list returned holds the files of
\* vendor and none of src/build
C17_Witness ==
    /\ FilesFound
    /\ <<"src", "build">> \in DOMAIN repo_tree
    /\ <<"vendor">> \in DOMAIN repo_tree
    /\ \E i \in 1..Len(cpp_files) : cpp_files[i].dir = <<"vendor">>
    /\ \E i \in 1..Len(cpp_files) : cpp_files[i].dir = <<"src">>
    /\ \A i \in 1..Len(cpp_files) : cpp_files[i].dir # <<"src", "build">>

(***************************************************************************)
(* clone_repo: the directory of a repository and a version                 *)
(***************************************************************************)
\* str.startswith(prefix)
StartsWith(name, prefix) ==
    /\ Len(name) >= Len(prefix)
    /\ SubSeq(name, 1, Len(prefix)) = prefix

\* str.rstrip("/")
RECURSIVE RStripSlash(_)
RStripSlash(url) ==
    IF url # <<>> /\ url[Len(url)] = "/"
    THEN RStripSlash(SubSeq(url, 1, Len(url) - 1))
    ELSE url

\* str.split("/")[-1]: what follows the last slash
LastSegment(url) ==
    LET slashes == {k \in 1..Len(url) : url[k] = "/"}
        last == IF slashes = {} THEN 0
                ELSE CHOOSE k \in slashes : \A h \in slashes : h <= k
    IN SubSeq(url, last + 1, Len(url))

\* re.sub(r"[^\w.-]", "_", name)
SafeName(name) ==
    [k \in 1..Len(name) |->
        IF IsWordChar(name[k]) \/ name[k] \in {".", "-"} THEN name[k] ELSE "_"]

DOT_GIT == <<".", "g", "i", "t">>

\* _sanitize_repo_name
SanitizeRepoName(repo_url) ==
    LET repo_name == LastSegment(RStripSlash(repo_url))
    IN SafeName(IF EndsWith(repo_name, DOT_GIT)
                THEN SubSeq(repo_name, 1, Len(repo_name) - Len(DOT_GIT))
                ELSE repo_name)

\* version_dir: the name of repo_dir under the working directory
VersionDir(repo_url, version) ==
    IF version # <<>>
    THEN SanitizeRepoName(repo_url) \o <<"_">> \o SafeName(version)
    ELSE SanitizeRepoName(repo_url)

\* the branch a clone is on before any checkout
HEAD == <<"H", "E", "A", "D">>

\* the checkout after the clone: the first tag that is the version, v and
\* the version, or starts with the version; or else the first branch
\* origin/<version>...; or else the version as a commit; or else, that
\* checkout failing, the default branch
CheckedOut(remote, version) ==
    LET matching_tags ==
            SelectSeq(remote.tags,
                      LAMBDA tag_name : \/ tag_name = version
                                        \/ tag_name = <<"v">> \o version
                                        \/ StartsWith(tag_name, version))
        matching_branches ==
            SelectSeq(remote.references,
                      LAMBDA ref : StartsWith(ref, <<"o", "r", "i", "g", "i", "n", "/">>
                                                   \o version))
    IN IF version = <<>> THEN HEAD
       ELSE IF matching_tags # <<>> THEN matching_tags[1]
       ELSE IF matching_branches # <<>> THEN matching_branches[1]
       ELSE IF version \in remote.commits THEN version
       ELSE HEAD

\* what git.Repo.clone_from and the checkout leave in repo_dir
Cloned(repo_url, remote, version) ==
    [url |-> repo_url, ref |-> CheckedOut(remote, version), tree |-> remote.tree]

\* a dict with one more entry
Put(dict, key, value) ==
    [k \in DOMAIN dict \cup {key} |-> IF k = key THEN value ELSE dict[k]]

(***************************************************************************)
(* analyze_plugins: the batch                                              *)
(***************************************************************************)
\* the repositories the URLs of the batch serve
URL_AB == <<"g", "/", "a", "b">>
URL_CD == <<"g", "/", "c", "d", ".", "g", "i", "t">>
URL_EE == <<"h", "/", "e", "e", "/">>
URL_XX == <<"g", "/", "x", "x">>
URL_HB == <<"h", "/", "a", "b">>

Directory(dirs, files) == [dirs |-> dirs, files |-> files]

Remote(repo_url) ==
    CASE repo_url = URL_AB ->
           [tags |-> << <<"v", "1">> >>, references |-> <<>>, commits |-> {},
            tree |-> (<<>> :> Directory(<<"src">>,
                                       <<SourceFile(<<"a", ".", "c", "p", "p">>,
                                                    FOO \o <<"(", ")", ";">>)>>)
                      @@ <<"src">> :> Directory(<<>>,
                                       <<SourceFile(<<"b", ".", "h">>,
                                                    SHIP_TURN \o <<"(", ")", ";", " ">> \o FOO),
                                         [name |-> <<"c", ".", "c">>, readable |-> FALSE,
                                          text |-> <<>>]>>))]
      [] repo_url = URL_CD ->
           [tags |-> <<>>, references |-> <<>>, commits |-> {},
            tree |-> (<<>> :> Directory(<<"test">>,
                                       <<SourceFile(<<"a", ".", "c", "p", "p">>,
                                                    <<"x", ";">>)>>)
                      @@ <<"test">> :> Directory(<<>>,
                                       <<SourceFile(<<"t", ".", "c", "p", "p">>,
                                                    FOO \o <<"(", ")", ";">>)>>))]
      [] repo_url = URL_HB ->
           [tags |-> << <<"1", ".", "2">> >>, references |-> <<>>, commits |-> {},
            tree |-> (<<>> :> Directory(<<>>,
                                       <<SourceFile(<<"h", ".", "c">>, FOO)>>))]
      [] repo_url = URL_EE ->
           [tags |-> <<>>, references |-> << <<"o", "r", "i", "g", "i", "n", "/", "1">> >>,
            commits |-> {},
            tree |-> (<<>> :> Directory(<<>>,
                                       <<SourceFile(<<"e", ".", "c", "c">>,
                                                    SHIP_TURN \o <<"(", ")", ";">>)>>))]

\* the URLs a clone of which can succeed
Served == {URL_AB, URL_CD, URL_EE, URL_HB}

Plugin(name, source_repo, version, api_version) ==
    [name |-> name, source_repo |-> source_repo, version |-> version,
     api_version |-> api_version]

\* the plugins a batch is made of: two that use the API, one that does
\* not, one whose repository cannot be cloned, one without a repository
PluginPool ==
    {Plugin("alpha", URL_AB, <<"1">>, "1.16"),
     Plugin("beta", URL_CD, <<>>, "1.16"),
     Plugin("gamma", URL_XX, <<"1">>, "1.18"),
     Plugin("delta", <<>>, <<"1">>, "1.16"),
     Plugin("epsilon", URL_EE, <<"1">>, "1.18")}

MaxPlugins == 3

\* the batches: at most n plugins of the pool, each once, in any order
RECURSIVE Batches(_)
Batches(n) ==
    IF n = 0 THEN {<<>>}
    ELSE LET shorter == Batches(n - 1)
         IN shorter \cup
            UNION {{Append(b, p) : p \in {q \in PluginPool :
                                             \A k \in 1..Len(b) : b[k].name # q.name}} :
                   b \in shorter}

\* clone_repo returned None
None == <<"None">>

\* "if not plugin.source_repo or not plugin.api_version": skipped
HasSourceAndApi(plugin) == plugin.source_repo # <<>> /\ plugin.api_version # ""

\* f"api_version_{plugin.api_version}"
ApiKey(plugin) == <<"api_version_", plugin.api_version>>

\* the order in which the two loops reach the plugins: plugins_by_api keeps
\* the api versions in the order of their first plugin and, under each, the
\* plugins in their order
Grouped(ps) ==
    LET kept == SelectSeq(ps, HasSourceAndApi)
        n == Len(kept)
        first(i) == CHOOSE j \in 1..n :
                        /\ kept[j].api_version = kept[i].api_version
                        /\ \A h \in 1..(j - 1) : kept[h].api_version # kept[i].api_version
        place(i) == Cardinality({j \in 1..n :
                                    \/ first(j) < first(i)
                                    \/ first(j) = first(i) /\ j <= i})
    IN [p \in 1..n |-> kept[CHOOSE i \in 1..n : place(i) = p]]

\* results[api_version][name] = symbol_counts, results being a defaultdict
Store(dict, api_version, name, counts) ==
    Put(dict, api_version,
        Put(IF api_version \in DOMAIN dict THEN dict[api_version] ELSE <<>>,
            name, counts))

\* the git error of a failed clone is not caught: it ends analyze_plugins
CloneFailsUncaught ==
    /\ pc = "plugins"
    /\ todo # <<>>
    /\ VersionDir(Head(todo).source_repo, Head(todo).version) \notin DOMAIN work_dir
    /\ pc' = "raised"
    /\ UNCHANGED <<api_symbols, cpp_files, file_idx, content, symbol_names, chunk_i,
                   symbols_to_check, pending, certified, found_symbols,
                   symbol_counts, returned, result>>
    /\ UNCHANGED batch_vars
    /\ UNCHANGED tool_vars

\* lines 322-336: the plugins are grouped, results is empty
GroupPlugins ==
    /\ pc = "start"
    /\ todo' = Grouped(plugins)
    /\ results' = <<>>
    /\ pc' = "plugins"
    /\ UNCHANGED <<api_symbols, cpp_files, file_idx, content, symbol_names, chunk_i,
                   symbols_to_check, pending, certified, found_symbols,
                   symbol_counts, returned, result, repo_tree, walk_stack, plugins,
                   work_dir, calls>>
    /\ UNCHANGED tool_vars

\* clone_repo finds no directory and the clone raises git.GitCommandError:
\* what it left of repo_dir is removed, None is returned, and the loop
\* continues with the next plugin
CloneFails ==
    /\ pc = "plugins"
    /\ todo # <<>>
    /\ VersionDir(Head(todo).source_repo, Head(todo).version) \notin DOMAIN work_dir
    /\ calls' = Append(calls, [name |-> Head(todo).name, repo_path |-> None,
                               counts |-> NoResult])
    /\ todo' = Tail(todo)
    /\ UNCHANGED <<api_symbols, cpp_files, pc, file_idx, content, symbol_names, chunk_i,
                   symbols_to_check, pending, certified, found_symbols,
                   symbol_counts, returned, result, repo_tree, walk_stack, plugins,
                   work_dir, results>>
    /\ UNCHANGED tool_vars

\* an analysis that goes on with the tally of the plugin before instead of
\* a new one
CloneRepoKeepsTally ==
    /\ pc = "plugins"
    /\ todo # <<>>
    /\ LET plugin == Head(todo)
           repo_dir == VersionDir(plugin.source_repo, plugin.version)
       IN /\ repo_dir \in DOMAIN work_dir \/ plugin.source_repo \in Served
          /\ work_dir' = IF repo_dir \in DOMAIN work_dir THEN work_dir
                         ELSE Put(work_dir, repo_dir,
                                  Cloned(plugin.source_repo, Remote(plugin.source_repo),
                                         plugin.version))
          /\ calls' = Append(calls, [name |-> plugin.name, repo_path |-> repo_dir,
                                     counts |-> NoResult])
          /\ repo_tree' = work_dir'[repo_dir].tree
    /\ walk_stack' = << <<>> >>
    /\ cpp_files' = <<>>
    /\ pc' = "walk"
    /\ file_idx' = 1
    /\ certified' = {}
    /\ found_symbols' = {}
    /\ symbol_counts' = symbol_counts
    /\ returned' = <<>>
    /\ result' = NoResult
    /\ UNCHANGED <<api_symbols, content, symbol_names, chunk_i, symbols_to_check,
                   pending, plugins, todo, results>>
    /\ UNCHANGED tool_vars

\* clone_repo returns repo_dir, which was there or is cloned and checked
\* out now; _analyze_plugin_repo is called and calls find_cpp_files on it
CloneRepo ==
    /\ pc = "plugins"
    /\ todo # <<>>
    /\ LET plugin == Head(todo)
           repo_dir == VersionDir(plugin.source_repo, plugin.version)
       IN /\ repo_dir \in DOMAIN work_dir \/ plugin.source_repo \in Served
          /\ work_dir' = IF repo_dir \in DOMAIN work_dir THEN work_dir
                         ELSE Put(work_dir, repo_dir,
                                  Cloned(plugin.source_repo, Remote(plugin.source_repo),
                                         plugin.version))
          /\ calls' = Append(calls, [name |-> plugin.name, repo_path |-> repo_dir,
                                     counts |-> NoResult])
          /\ repo_tree' = work_dir'[repo_dir].tree
    /\ walk_stack' = << <<>> >>
    /\ cpp_files' = <<>>
    /\ pc' = "walk"
    /\ file_idx' = 1
    /\ certified' = {}
    /\ found_symbols' = {}
    /\ symbol_counts' = <<>>
    /\ returned' = <<>>
    /\ result' = NoResult
    /\ UNCHANGED <<api_symbols, content, symbol_names, chunk_i, symbols_to_check,
                   pending, plugins, todo, results>>
    /\ UNCHANGED tool_vars

\* _analyze_plugin_repo has returned: "if symbol_counts:" stores a tally
\* that is not empty; then the next plugin
StoreResults ==
    /\ pc = "done"
    /\ todo # <<>>
    /\ results' = IF result # <<>>
                  THEN Store(results, ApiKey(Head(todo)), Head(todo).name, result)
                  ELSE results
    /\ calls' = [calls EXCEPT ![Len(calls)].counts = result]
    /\ todo' = Tail(todo)
    /\ pc' = "plugins"
    /\ UNCHANGED <<api_symbols, cpp_files, file_idx, content, symbol_names, chunk_i,
                   symbols_to_check, pending, certified, found_symbols,
                   symbol_counts, returned, result, repo_tree, walk_stack, plugins,
                   work_dir>>
    /\ UNCHANGED tool_vars

\* both loops are over: return dict(results)
ReturnResults ==
    /\ pc = "plugins"
    /\ todo = <<>>
    /\ pc' = "returned"
    /\ UNCHANGED <<api_symbols, cpp_files, file_idx, content, symbol_names, chunk_i,
                   symbols_to_check, pending, certified, found_symbols,
                   symbol_counts, returned, result>>
    /\ UNCHANGED batch_vars
    /\ UNCHANGED tool_vars

AnalyzePlugins ==
    \/ GroupPlugins
    \/ CloneFails
    \/ CloneRepo
    \/ VisitDirectory
    \/ ReturnFiles
    \/ ReadFails
    \/ ReadFile
    \/ PrefilterChunk
    \/ CheckSymbol
    \/ FoldFile
    \/ ReturnCounts
    \/ StoreResults
    \/ ReturnResults

\* analyze_plugins is called
StartBatch(catalog, batch, dirs) ==
    /\ api_symbols = catalog
    /\ cpp_files = <<>>
    /\ pc = "start"
    /\ file_idx = 1
    /\ content = <<>>
    /\ symbol_names = <<>>
    /\ chunk_i = 0
    /\ symbols_to_check = {}
    /\ pending = {}
    /\ certified = {}
    /\ found_symbols = {}
    /\ symbol_counts = <<>>
    /\ returned = <<>>
    /\ result = NoResult
    /\ repo_tree = NoTree
    /\ walk_stack = <<>>
    /\ plugins = batch
    /\ todo = <<>>
    /\ work_dir = dirs
    /\ results = <<>>
    /\ calls = <<>>
    /\ NoTools

\* the working directory before the run: empty, or holding the directory of
\* an earlier run for URL_CD
WorkDirs ==
    {<<>>,
     VersionDir(URL_CD, <<>>) :>
        [url |-> URL_CD, ref |-> HEAD,
         tree |-> (<<>> :> Directory(<<>>, <<SourceFile(<<"o", ".", "c">>, FOO)>>))]}

InitPlugins ==
    \E batch \in Batches(MaxPlugins) :
       \E dirs \in WorkDirs :
          StartBatch(<<Symbol(FOO, "MACRO_DEFINITION"), Symbol(SHIP_TURN, "CXX_METHOD")>>,
                     batch, dirs)

PluginsSpec == InitPlugins /\ [][AnalyzePlugins]_vars

(***************************************************************************)
(* C16: a repository that cannot be obtained                               *)
(***************************************************************************)
\* the plugin of the i-th call of clone_repo was skipped: no repository
CloneFailed(i) == calls[i].repo_path = None

\* the i-th call of clone_repo gave a repository and its analysis is over
Analysed(i) ==
    /\ calls[i].repo_path # None
    /\ i < Len(calls) \/ pc \in {"plugins", "returned"}

\* the results hold an entry for the plugin
Reported(name) == \E v \in DOMAIN results : name \in DOMAIN results[v]

PluginNamed(name) == CHOOSE p \in {plugins[k] : k \in 1..Len(plugins)} : p.name = name

\* the files of a repository directory that are not under an excluded
\* directory, have a C++ suffix and can be read
SourcesOf(tree) ==
    {<<p, k>> \in UNION {{<<q, h>> : h \in 1..Len(tree[q].files)} : q \in DOMAIN tree} :
        /\ ~IsUnder(p, {excludes[e] : e \in 1..Len(excludes)})
        /\ IsCppFile(tree[p].files[k].name)
        /\ tree[p].files[k].readable}

\* the tally of a repository analysed alone: for each symbol that some of
\* its sources uses, the number of these sources
TallyAlone(tree) ==
    LET users(name) ==
            {s \in SourcesOf(tree) :
                name \in AnalyzeWith(tree[s[1]].files[s[2]].text, api_symbols, chunk_size)}
    IN [name \in {n \in {api_symbols[k].name : k \in 1..Len(api_symbols)} :
                     users(n) # {}} |-> Cardinality(users(name))]

QuoteLines(S) ==
    { S,                                                          \* a plain use
      <<"\"", "x", "\"", " ">> \o S,                              \* a use after a closed string
      <<"\"", "x", "\\", "\\", "\"", " ">> \o S,                  \* a use after a string ending in an escaped backslash
      <<"\"", "x", "\\", "\\", "\"", " ", "\"">> \o S,            \* the same, and one more quote before the use
      <<"\"", "x", "\\", "\"", " ">> \o S \o <<"\"", " ", "y">>,  \* a string with an escaped quote, the name in it
      <<"\\", "\"", " ">> \o S,                                   \* a quote after a backslash, outside any string
      <<"\"">> \o S,                                              \* an unterminated string with the name
      <<"y", " ", "=", " ", "\"", "x">>,                          \* an unterminated string without the name
      <<"\"", "\"", " ">> \o S,                                   \* a use after an empty string
      <<"/", "/", " ", "\"">>                                     \* a comment line with one quote
    }

\* the symbols of the quote runs: a macro, a class, a scoped method
QuoteCatalog ==
    {Symbol(FOO, "MACRO_DEFINITION"), Symbol(WIDGET, "CLASS_DECL"),
     Symbol(SHIP_TURN, "CXX_METHOD")}

MaxQuoteLines == 2

InitQuotes ==
    \E sym \in QuoteCatalog :
       \E f \in {File(t) : t \in TextsOf(QuoteLines(ShortName(sym.name)), MaxQuoteLines)}
                \cup {Unreadable} :
          Start(<<sym>>, <<f>>)

QuoteSpec == InitQuotes /\ [][Next]_vars

\* the parts of a line, one after the other
RECURSIVE Concat(_)
Concat(parts) == IF parts = <<>> THEN <<>> ELSE Head(parts) \o Concat(Tail(parts))

\* position k of t holds a quote that no backslash immediately precedes
TogglesQuote(t, k) ==
    t[k] = QUOTE /\ (k = LineStartOf(t, k) \/ t[k - 1] # BACKSLASH)

\* the characters of a line that are outside its quoted spans, the toggling
\* quotes left out
OutsideQuotes(line) ==
    LET keep(k) == ~TogglesQuote(line, k) /\ ~InQuotedSpan(line, k)
        kept == {k \in 1..Len(line) : keep(k)}
        nth(p) == CHOOSE k \in kept : Cardinality({j \in kept : j <= k}) = p
    IN [p \in 1..Cardinality(kept) |-> line[nth(p)]]

\* position i follows, with no quote in between, a quote that stands in an
\* open string right after two backslashes
AfterEscapedBackslashQuote(t, i) ==
    \E k \in (LineStartOf(t, i) + 2)..(i - 1) :
        /\ t[k] = QUOTE /\ t[k - 1] = BACKSLASH /\ t[k - 2] = BACKSLASH
        /\ InQuotedSpan(t, k)
        /\ \A j \in (k + 1)..(i - 1) : t[j] # QUOTE

\* C21: on every line the non-quoted parts are the characters before which
\* an even number of quotes stands, counting a quote unless the character
\* immediately before it is a backslash; and a symbol all of whose mentions
\* follow, in an open string, a quote preceded by two backslashes is neither
\* certified nor returned: that quote did not close the string.
C21_EscapedBackslashKeepsStringOpen ==
    FileAnalysed =>
        /\ \A l \in 1..Len(SplitLines(Text)) :
              Concat(UnquotedParts(SplitLines(Text)[l])) = OutsideQuotes(SplitLines(Text)[l])
        /\ \A sym \in Catalog :
              LET S == ShortName(sym.name)
              IN (/\ WordPositions(Text, S) # {}
                  /\ \A i \in WordPositions(Text, S) : AfterEscapedBackslashQuote(Text, i))
                    => sym.name \notin certified /\ sym.name \notin found_symbols

\* a macro whose only mention follows a string closed after an escaped
\* backslash, on a line of its own, and that is not returned
C21_Witness ==
    /\ FileAnalysed
    /\ \E sym \in Catalog :
          LET S == ShortName(sym.name)
          IN /\ sym.kind = "MACRO_DEFINITION"
             /\ WordPositions(Text, S) # {}
             /\ \A i \in WordPositions(Text, S) :
                   /\ AfterEscapedBackslashQuote(Text, i)
                   /\ \A k \in LineStartOf(Text, i)..(i - 1) :
                         Text[k] = QUOTE => k = LineStartOf(Text, i) \/ Text[k - 1] = BACKSLASH
             /\ sym.name \notin found_symbols

(***************************************************************************)
(* C22: the accepted set during one call                                   *)
(***************************************************************************)
\* the keys of the catalog
CatalogKeys == {api_symbols[k].name : k \in 1..Len(api_symbols)}

\* C22: from the first chunk of a call of _analyze_file_content to its
\* return no step removes a name from found_symbols; during the second
\* pass every name of found_symbols is certified, every certified name is
\* in symbols_to_check and every name of symbols_to_check is a key of the
\* catalog; and the set returned holds only certified keys that the chunk
\* loop found in the text of the file.
C22_AcceptedSetOnlyGrows ==
    /\ [][(pc \in {"prefilter", "second_pass"}) =>
             (\A name \in found_symbols : name \in found_symbols')]_vars
    /\ [](pc = "prefilter" => found_symbols = {})
    /\ [](pc = "second_pass" =>
             /\ found_symbols \subseteq certified
             /\ certified \subseteq symbols_to_check
             /\ symbols_to_check \subseteq CatalogKeys)
    /\ [](FileAnalysed =>
             /\ found_symbols \subseteq certified
             /\ certified \subseteq CatalogKeys
             /\ certified \subseteq
                   CandidatesWith(Text, SortByLenDesc(Keys(api_symbols)), chunk_size))

\* the second pass of a file with one name accepted and a candidate still
\* to check, that one being accepted as well
C22_Witness ==
    /\ pc = "second_pass"
    /\ Cardinality(found_symbols) = 1
    /\ \E symbol_name \in pending :
          /\ MatchFound(content, ShortName(symbol_name))
          /\ Accepts(content, symbol_name, KindOf(api_symbols, symbol_name))

(***************************************************************************)
(* C23: the order of the files, and tallies of parts of the list           *)
(***************************************************************************)
\* the orders in which n files can be processed
Orders(n) == {f \in [1..n -> 1..n] : \A a, b \in 1..n : f[a] = f[b] => a = b}

\* the tally of the first k files of a list of indices, each file counted
\* with the set returned for it
RECURSIVE TallyOfFirst(_, _)
TallyOfFirst(indices, k) ==
    IF k = 0 THEN <<>>
    ELSE CountFile(TallyOfFirst(indices, k - 1), returned[indices[k]])

TallyOf(indices) == TallyOfFirst(indices, Len(indices))

\* two tallies merged by summation
SumTallies(t1, t2) ==
    [n \in DOMAIN t1 \cup DOMAIN t2 |->
        (IF n \in DOMAIN t1 THEN t1[n] ELSE 0) + (IF n \in DOMAIN t2 THEN t2[n] ELSE 0)]

\* the indices of the files a labelling puts in block b, in their order
BlockOf(labels, b) ==
    LET members == {i \in DOMAIN labels : labels[i] = b}
        nth(p) == CHOOSE i \in members : Cardinality({j \in members : j <= i}) = p
    IN [p \in 1..Cardinality(members) |-> nth(p)]

\* the partial tallies of the blocks 1..b of a labelling, summed
RECURSIVE SumOfBlocks(_, _)
SumOfBlocks(labels, b) ==
    IF b = 0 THEN <<>>
    ELSE SumTallies(SumOfBlocks(labels, b - 1), TallyOf(BlockOf(labels, b)))

\* C23: when _analyze_plugin_repo has returned, the set returned for each
\* file is the one _analyze_file_content gives for that file and the
\* catalog alone, whatever files came before it (the empty set for a file
\* that cannot be read); folding these sets in any order of the files gives
\* the tally returned; and so does summing the tallies of the blocks of any
\* partition of the list.
C23_OrderAndPartitionIndependent ==
    pc = "done" =>
        LET n == Len(cpp_files)
        IN /\ Len(returned) = n
           /\ \A i \in 1..n :
                 returned[i] = IF cpp_files[i].readable
                               THEN AnalyzeWith(cpp_files[i].text, api_symbols, chunk_size)
                               ELSE {}
           /\ \A order \in Orders(n) : TallyOf(order) = result
           /\ \A labels \in [1..n -> 1..n] : SumOfBlocks(labels, n) = result

\* a run of three files that has returned: the first two return different
\* non-empty sets, the third a set that the first does not hold, and one
\* symbol is counted twice
C23_Witness ==
    /\ pc = "done"
    /\ Len(returned) = 3
    /\ returned[1] # {} /\ returned[2] # {} /\ returned[1] # returned[2]
    /\ returned[3] # returned[1]
    /\ \E name \in DOMAIN result : result[name] = 2

(***************************************************************************)
(* C24: the tally of a repository                                          *)
(***************************************************************************)
\* C24: while the files of a repository are analysed no step removes an
\* entry of symbol_counts or lowers a count; the analysis of each plugin
\* starts with an empty symbol_counts; the tally it returns counts, for each
\* symbol, files of that plugin's own repository only; and so the tally of
\* every analysed plugin is the one of its repository analysed alone,
\* whatever plugins came before it.
C24_TallyAppendOnlyPerPlugin ==
    /\ [][(pc \in {"loop", "prefilter", "second_pass", "fold"}) =>
             (\A name \in DOMAIN symbol_counts :
                 /\ name \in DOMAIN symbol_counts'
                 /\ symbol_counts'[name] >= symbol_counts[name])]_vars
    /\ [](pc = "walk" => symbol_counts = <<>>)
    /\ []((pc = "loop" /\ file_idx = 1) => symbol_counts = <<>>)
    /\ [](pc = "done" =>
             \A name \in DOMAIN result :
                 result[name] = Cardinality({i \in 1..Len(cpp_files) :
                                                name \in returned[i]}))
    /\ [](\A i \in 1..Len(calls) :
             Analysed(i) =>
                 calls[i].counts = TallyAlone(work_dir[calls[i].repo_path].tree))

\* two plugins analysed one after the other: the tally of the first counts
\* a symbol in two files, the tally of the second is not empty and does not
\* hold that symbol
C24_Witness ==
    \E i, j \in 1..Len(calls) :
        /\ i < j
        /\ Analysed(i) /\ Analysed(j)
        /\ \E name \in DOMAIN calls[i].counts :
              /\ calls[i].counts[name] = 2
              /\ name \notin DOMAIN calls[j].counts
        /\ calls[j].counts # <<>>

(***************************************************************************)
(* ApiHeaderParser.__init__: the one-time setup of libclang                *)
(***************************************************************************)
\* no repository analysed, no batch
NoAnalysis ==
    /\ api_symbols = <<>>
    /\ cpp_files = <<>>
    /\ pc = "idle"
    /\ file_idx = 1
    /\ content = <<>>
    /\ symbol_names = <<>>
    /\ chunk_i = 0
    /\ symbols_to_check = {}
    /\ pending = {}
    /\ certified = {}
    /\ found_symbols = {}
    /\ symbol_counts = <<>>
    /\ returned = <<>>
    /\ result = NoResult
    /\ NoBatch

\* the header_url of the parsers constructed
HEADER_URLS == {"ocpn_plugin.h", "http://h/ocpn_plugin.h", "old/ocpn_plugin.h"}

MaxParsers == 4

\* a parser that runs _initialize_clang whatever the flag says
ConstructAndInitialize ==
    \E header_url \in HEADER_URLS :
       /\ Len(parsers) < MaxParsers
       /\ init_runs' = init_runs + 1
       /\ _LIBCLANG_INITIALIZED' = TRUE
       /\ Config' = [loaded |-> libclang.loadable,
                     library_file |-> Config.library_file \/ libclang.found]
       /\ parsers' = IF libclang.loadable THEN Append(parsers, header_url) ELSE parsers
       /\ UNCHANGED <<api_symbols, cpp_files, pc, file_idx, content, symbol_names, chunk_i,
                      symbols_to_check, pending, certified, found_symbols,
                      symbol_counts, returned, result, libclang, format,
                      report_results, report>>
       /\ UNCHANGED batch_vars

\* _find_clang_lib_path calls Config.set_library_file when it finds a
\* libclang on the paths it tries, outside any try on the paths of lines
\* 155-176; Config.set_library_file and Config.set_library_path raise when
\* the library is loaded already; _initialize_clang catches what
\* Config.set_library_path raises.  So _initialize_clang raises exactly in
\* this case:
InitializeRaises == libclang.found /\ Config.loaded

\* Config after _initialize_clang has returned
Initialized == [Config EXCEPT !.library_file = Config.library_file \/ libclang.found]

\* ApiHeaderParser(header_url): the flag is read; when it is not set
\* _initialize_clang runs and the flag is set after it; then
\* clang.cindex.Index.create() loads the library, or raises when there is
\* none to load.  An exception leaves no parser.
ConstructParser ==
    \E header_url \in HEADER_URLS :
       /\ Len(parsers) < MaxParsers
       /\ IF _LIBCLANG_INITIALIZED
          THEN /\ UNCHANGED <<init_runs, _LIBCLANG_INITIALIZED>>
               /\ Config' = [Config EXCEPT !.loaded = libclang.loadable]
               /\ parsers' = IF libclang.loadable THEN Append(parsers, header_url)
                             ELSE parsers
          ELSE /\ init_runs' = init_runs + 1
               /\ IF InitializeRaises
                  THEN UNCHANGED <<_LIBCLANG_INITIALIZED, Config, parsers>>
                  ELSE /\ _LIBCLANG_INITIALIZED' = TRUE
                       /\ Config' = [Initialized EXCEPT !.loaded = libclang.loadable]
                       /\ parsers' = IF libclang.loadable THEN Append(parsers, header_url)
                                     ELSE parsers
       /\ UNCHANGED <<api_symbols, cpp_files, pc, file_idx, content, symbol_names, chunk_i,
                      symbols_to_check, pending, certified, found_symbols,
                      symbol_counts, returned, result, libclang, format,
                      report_results, report>>
       /\ UNCHANGED batch_vars

\* the process after the import of api_parser: the flag is not set, the
\* library is not loaded
InitParsers ==
    /\ NoAnalysis
    /\ _LIBCLANG_INITIALIZED = FALSE
    /\ Config = [loaded |-> FALSE, library_file |-> FALSE]
    /\ libclang \in [found : BOOLEAN, loadable : BOOLEAN]
    /\ init_runs = 0
    /\ parsers = <<>>
    /\ format = ""
    /\ report_results = <<>>
    /\ report = NoReport

ParserSpec == InitParsers /\ [][ConstructParser]_vars

\* C25: _initialize_clang is entered at most once in a process; it is
\* entered by the first construction; a construction that finds the flag
\* set does not enter it; and once a parser exists the count is one and
\* stays one for every later construction.
C25_InitializedAtMostOnce ==
    /\ [](init_runs <= 1)
    /\ [](_LIBCLANG_INITIALIZED <=> init_runs = 1)
    /\ [](parsers # <<>> => init_runs = 1)
    /\ [][_LIBCLANG_INITIALIZED => init_runs' = init_runs]_vars

\* three parsers constructed one after the other for two different headers,
\* and one run of the setup
C25_Witness ==
    /\ Len(parsers) >= 3
    /\ parsers[1] # parsers[2]
    /\ init_runs = 1

(***************************************************************************)
(* clone_repo: sequences of calls                                          *)
(***************************************************************************)
\* the repository URLs and versions clone_repo is called with: no URL, no
\* version, two URLs of the same last segment
CLONE_URLS == {<<>>, URL_AB, URL_HB, URL_CD, URL_XX}
CLONE_VERSIONS == {<<>>, <<"1">>}

MaxCalls == 3

\* what a clone that failed has written under repo_dir
PARTIAL == [url |-> <<>>, ref |-> <<>>, tree |-> NoTree]

\* one call of clone_repo, as recorded: its arguments, what it returned, how
\* it ended, and the directories of the working directory after it
Call(repo_url, version, repo_path, outcome, dirs) ==
    [repo_url |-> repo_url, version |-> version, repo_path |-> repo_path,
     outcome |-> outcome, dirs_after |-> DOMAIN dirs]

\* a failed clone whose directory is not removed
CloneRaisesLeavesDir ==
    \E repo_url \in CLONE_URLS \ {<<>>}, version \in CLONE_VERSIONS :
       LET repo_dir == VersionDir(repo_url, version)
       IN /\ Len(calls) < MaxCalls
          /\ repo_dir \notin DOMAIN work_dir
          /\ work_dir' = Put(work_dir, repo_dir, PARTIAL)
          /\ calls' = Append(calls, Call(repo_url, version, None, "git_error", work_dir'))
          /\ UNCHANGED <<api_symbols, cpp_files, pc, file_idx, content, symbol_names,
                         chunk_i, symbols_to_check, pending, certified, found_symbols,
                         symbol_counts, returned, result, repo_tree, walk_stack,
                         plugins, todo, results>>
          /\ UNCHANGED tool_vars

\* "if not repo_url": None
CloneNoUrl ==
    \E version \in CLONE_VERSIONS :
       /\ Len(calls) < MaxCalls
       /\ calls' = Append(calls, Call(<<>>, version, None, "no_url", work_dir))
       /\ UNCHANGED <<api_symbols, cpp_files, pc, file_idx, content, symbol_names,
                      chunk_i, symbols_to_check, pending, certified, found_symbols,
                      symbol_counts, returned, result, repo_tree, walk_stack,
                      plugins, todo, work_dir, results>>
       /\ UNCHANGED tool_vars

\* "if repo_dir.exists()": repo_dir is returned as it is
CloneExists ==
    \E repo_url \in CLONE_URLS \ {<<>>}, version \in CLONE_VERSIONS :
       LET repo_dir == VersionDir(repo_url, version)
       IN /\ Len(calls) < MaxCalls
          /\ repo_dir \in DOMAIN work_dir
          /\ calls' = Append(calls, Call(repo_url, version, repo_dir, "exists", work_dir))
          /\ UNCHANGED <<api_symbols, cpp_files, pc, file_idx, content, symbol_names,
                         chunk_i, symbols_to_check, pending, certified, found_symbols,
                         symbol_counts, returned, result, repo_tree, walk_stack,
                         plugins, todo, work_dir, results>>
          /\ UNCHANGED tool_vars

\* the clone succeeds, the version is checked out as far as it is found,
\* repo_dir is returned
CloneSucceeds ==
    \E repo_url \in Served \cap CLONE_URLS, version \in CLONE_VERSIONS :
       LET repo_dir == VersionDir(repo_url, version)
       IN /\ Len(calls) < MaxCalls
          /\ repo_dir \notin DOMAIN work_dir
          /\ work_dir' = Put(work_dir, repo_dir,
                             Cloned(repo_url, Remote(repo_url), version))
          /\ calls' = Append(calls, Call(repo_url, version, repo_dir, "cloned", work_dir'))
          /\ UNCHANGED <<api_symbols, cpp_files, pc, file_idx, content, symbol_names,
                         chunk_i, symbols_to_check, pending, certified, found_symbols,
                         symbol_counts, returned, result, repo_tree, walk_stack,
                         plugins, todo, results>>
          /\ UNCHANGED tool_vars

\* git.Repo.clone_from raises git.GitCommandError: what it wrote under
\* repo_dir is removed, None is returned
CloneRaises ==
    \E repo_url \in CLONE_URLS \ {<<>>}, version \in CLONE_VERSIONS :
       LET repo_dir == VersionDir(repo_url, version)
       IN /\ Len(calls) < MaxCalls
          /\ repo_dir \notin DOMAIN work_dir
          /\ work_dir' = work_dir
          /\ calls' = Append(calls, Call(repo_url, version, None, "git_error", work_dir'))
          /\ UNCHANGED <<api_symbols, cpp_files, pc, file_idx, content, symbol_names,
                         chunk_i, symbols_to_check, pending, certified, found_symbols,
                         symbol_counts, returned, result, repo_tree, walk_stack,
                         plugins, todo, results>>
          /\ UNCHANGED tool_vars

CloneRepoCall == CloneNoUrl \/ CloneExists \/ CloneSucceeds \/ CloneRaises

\* a RepoHandler on an empty working directory
InitClones == NoAnalysis /\ NoTools

CloneSpec == InitClones /\ [][CloneRepoCall]_vars

\* C26 as claimed: two calls that return the same directory were made for
\* the same repository URL and the same version, and the directory a call
\* returns holds a clone of the URL of that call.
C26_Claimed ==
    \A i, j \in 1..Len(calls) :
        (calls[i].repo_path # None /\ calls[j].repo_path = calls[i].repo_path) =>
            /\ calls[j].repo_url = calls[i].repo_url
            /\ calls[j].version = calls[i].version
            /\ work_dir[calls[i].repo_path].url = calls[i].repo_url

\* the reference ref is the version, as a tag with or without v, or as a
\* branch of origin, or the start of such a name
NamesVersion(ref, version) ==
    \/ StartsWith(ref, version)
    \/ StartsWith(ref, <<"v">> \o version)
    \/ StartsWith(ref, <<"o", "r", "i", "g", "i", "n", "/">> \o version)

\* C27 as claimed: a directory that a call returns because it exists holds
\* a clone of the URL of the call, checked out at a reference that names
\* the version asked for.
C27_Claimed ==
    \A i \in 1..Len(calls) :
        calls[i].outcome = "exists" =>
            /\ work_dir[calls[i].repo_path].url = calls[i].repo_url
            /\ calls[i].version # <<>> =>
                  NamesVersion(work_dir[calls[i].repo_path].ref, calls[i].version)

\* C28: a call that ends on a git error returns None and leaves the working
\* directory as it found it, without the directory of its URL and version;
\* a directory returned because it exists was left by an earlier call whose
\* clone succeeded, never by a failed one; so the next call for the URL and
\* version of a failed call, no other call having made that directory in
\* between, attempts the clone again.
C28_FailedCloneLeavesNothing ==
    /\ \A i \in 1..Len(calls) :
          calls[i].outcome = "git_error" =>
              /\ calls[i].repo_path = None
              /\ VersionDir(calls[i].repo_url, calls[i].version) \notin calls[i].dirs_after
              /\ calls[i].dirs_after = IF i = 1 THEN {} ELSE calls[i - 1].dirs_after
    /\ \A j \in 1..Len(calls) :
          calls[j].outcome = "exists" =>
              \E k \in 1..(j - 1) :
                  /\ calls[k].outcome = "cloned"
                  /\ calls[k].repo_path = calls[j].repo_path
    /\ \A i, j \in 1..Len(calls) :
          (/\ i < j
           /\ calls[i].outcome = "git_error"
           /\ calls[j].repo_url = calls[i].repo_url
           /\ calls[j].version = calls[i].version
           /\ \A k \in (i + 1)..(j - 1) :
                 calls[k].repo_path # VersionDir(calls[i].repo_url, calls[i].version))
            => calls[j].outcome \in {"cloned", "git_error"}

\* a clone that failed, then the same URL and version cloned by the next
\* call, then returned as existing
C28_Witness ==
    /\ Len(calls) = 3
    /\ calls[1].outcome = "git_error"
    /\ calls[2].outcome = "cloned"
    /\ calls[3].outcome = "exists"
    /\ calls[2].repo_url = calls[1].repo_url /\ calls[2].version = calls[1].version
    /\ calls[3].repo_url = calls[1].repo_url /\ calls[3].version = calls[1].version

(***************************************************************************)
(* C29: the quote state from one line to the next                          *)
(***************************************************************************)
\* the number of toggling quotes of the positions a..b is odd
OddQuotes(t, a, b) == Cardinality({k \in a..b : TogglesQuote(t, k)}) % 2 = 1

\* position i is on a line that follows a line with an unterminated quote
FollowsUnterminatedLine(t, i) ==
    LET b == LineStartOf(t, i)
    IN b > 1 /\ OddQuotes(t, LineStartOf(t, b - 1), b - 1)

\* position i follows, on its line, a quote that nothing closes before the
\* end of the line
AfterUnterminatedQuote(t, i) ==
    /\ InQuotedSpan(t, i)
    /\ \A k \in i..Len(t) :
          (\A j \in i..k : t[j] # NEWLINE) => ~TogglesQuote(t, k)

\* C29: a symbol whose short name stands as a whole word on the line after
\* a line with an unterminated quote, that line being no comment line and
\* the word outside the quoted spans of its own line, is certified; and a
\* symbol all of whose mentions follow an unterminated quote on their own
\* line is not certified.
C29_QuoteStateResetPerLine ==
    FileAnalysed =>
        \A sym \in Catalog :
            LET S == ShortName(sym.name)
            IN /\ (\E i \in WordPositions(Text, S) :
                      /\ FollowsUnterminatedLine(Text, i)
                      /\ ~OnCommentLine(Text, i)
                      /\ ~InQuotedSpan(Text, i))
                     => sym.name \in certified
               /\ (/\ WordPositions(Text, S) # {}
                   /\ \A i \in WordPositions(Text, S) : AfterUnterminatedQuote(Text, i))
                     => sym.name \notin certified

\* a returned macro whose only mention stands on the line after a line
\* with an unterminated quote
C29_Witness ==
    /\ FileAnalysed
    /\ \E sym \in Catalog :
          LET S == ShortName(sym.name)
          IN /\ sym.kind = "MACRO_DEFINITION"
             /\ Cardinality(WordPositions(Text, S)) = 1
             /\ \A i \in WordPositions(Text, S) : FollowsUnterminatedLine(Text, i)
             /\ sym.name \in found_symbols

(***************************************************************************)
(* ReportGenerator: the symbols of a report                                *)
(***************************************************************************)
\* the results handed to generate: <<[api_version, plugins], ...>> in dict
\* order, plugins being <<[name, symbols], ...>> in dict order and symbols a
\* tally.  An api version is the pair of its prefix and its number.

\* str.replace("api_version_", "")
VersionNumber(api_version) == api_version[2]

\* sorted(...) of names and of symbols: the place of each in the order of
\* the strings; of plugin names, in the order of their lower-case spelling
SortRank(x) ==
    CASE x = "alpha" -> 1
      [] x = "Beta" -> 2
      [] x = "gamma" -> 3
      [] x = FOO -> 1
      [] x = SHIP_TURN -> 2
      [] x = WIDGET -> 3

\* the members of a set, sorted
Sorted(S) ==
    LET place(x) == Cardinality({y \in S : SortRank(y) <= SortRank(x)})
    IN [p \in 1..Cardinality(S) |-> CHOOSE x \in S : place(x) = p]

\* an 'all API symbols' that is the catalog of the header, whatever the
\* results hold
AllSymbolsOfCatalog(report_input) == {FOO, SHIP_TURN, WIDGET}

\* _get_all_api_symbols: all_symbols.update(symbols) for every plugin of
\* every version
GetAllApiSymbols(report_input) ==
    UNION {UNION {DOMAIN report_input[v].plugins[p].symbols :
                     p \in 1..Len(report_input[v].plugins)} : v \in 1..Len(report_input)}

\* _get_unused_symbols
GetUnusedSymbols(all_symbols, used_symbols) == all_symbols \ used_symbols

\* the (plugin_name, version_number, symbols) of every plugin, in the order
\* of the two loops
RECURSIVE FlatPlugins(_)
FlatPlugins(report_input) ==
    IF report_input = <<>> THEN <<>>
    ELSE [p \in 1..Len(Head(report_input).plugins) |->
             [name |-> Head(report_input).plugins[p].name,
              api_version |-> VersionNumber(Head(report_input).api_version),
              symbols |-> Head(report_input).plugins[p].symbols]]
         \o FlatPlugins(Tail(report_input))

\* symbol_to_plugins[symbol].append(plugin_name): a defaultdict(list) with a
\* key for each symbol met in the loops, and the names of its plugins
SymbolToPlugins(report_input) ==
    LET flat == FlatPlugins(report_input)
        met == {s \in {FOO, SHIP_TURN, WIDGET} :
                   \E p \in 1..Len(flat) : s \in DOMAIN flat[p].symbols}
        users(s) == SelectSeq(flat, LAMBDA row : s \in DOMAIN row.symbols)
    IN [s \in met |-> [p \in 1..Len(users(s)) |-> users(s)[p].name]]

\* sorted(all_plugins, key=lambda x: x[0].lower()): the rows of the plugin
\* summary
PluginRows(report_input) ==
    LET flat == FlatPlugins(report_input)
        place(i) == Cardinality({j \in 1..Len(flat) :
                                   \/ SortRank(flat[j].name) < SortRank(flat[i].name)
                                   \/ SortRank(flat[j].name) = SortRank(flat[i].name) /\ j <= i})
    IN [p \in 1..Len(flat) |->
           LET i == CHOOSE k \in 1..Len(flat) : place(k) = p
           IN <<flat[i].name, flat[i].api_version>>]

\* the keys of symbol_to_plugins in the order of the dict: the order in
\* which the loops met them
RECURSIVE MetKeys(_, _)
MetKeys(flat, keys) ==
    IF flat = <<>> THEN keys
    ELSE MetKeys(Tail(flat),
                 keys \o SelectSeq(Sorted(DOMAIN Head(flat).symbols),
                                   LAMBDA s : \A k \in 1..Len(keys) : keys[k] # s))

\* sorted(symbol_to_plugins.items(), key=lambda item: len(item[1]),
\* reverse=True): the rows of a table of used symbols
UsedRows(report_input) ==
    LET symbol_to_plugins == SymbolToPlugins(report_input)
        keys == MetKeys(FlatPlugins(report_input), <<>>)
        n == Len(keys)
        count(i) == Len(symbol_to_plugins[keys[i]])
        place(i) == Cardinality({j \in 1..n : count(j) > count(i)})
                    + Cardinality({j \in 1..i : count(j) = count(i)})
    IN [p \in 1..n |->
           LET i == CHOOSE k \in 1..n : place(k) = p
           IN <<keys[i], count(i), symbol_to_plugins[keys[i]]>>]

\* f"{x / y * 100:.1f}" and round(x / y * 100, 1), in tenths of a percent
Percentage(x, y) ==
    LET q == (x * 1000) \div y
        r == (x * 1000) % y
    IN IF 2 * r > y \/ (2 * r = y /\ q % 2 = 1) THEN q + 1 ELSE q

\* a call of generate that has ended: what it computed, the files it wrote,
\* whether it raised ZeroDivisionError
Report(all_api_symbols, used_symbols, unused_symbols, files, raised) ==
    [all_api_symbols |-> all_api_symbols, used_symbols |-> used_symbols,
     unused_symbols |-> unused_symbols, files |-> files, raised |-> raised]

\* the statistics and the tables of the markdown and html reports
Statistics(report_input, all_api_symbols, used_symbols, unused_symbols) ==
    [plugins |-> PluginRows(report_input),
     total |-> Cardinality(all_api_symbols),
     used |-> Cardinality(used_symbols),
     used_percentage |-> Percentage(Cardinality(used_symbols), Cardinality(all_api_symbols)),
     unused |-> Cardinality(unused_symbols),
     unused_percentage |-> Percentage(Cardinality(unused_symbols), Cardinality(all_api_symbols)),
     used_rows |-> UsedRows(report_input),
     unused_rows |-> Sorted(unused_symbols),
     versions |-> [v \in 1..Len(report_input) |->
                     <<VersionNumber(report_input[v].api_version),
                       UsedRows(<<report_input[v]>>)>>]]

\* _generate_markdown_report and _generate_html_report: the file is opened
\* and the plugin summary written before the percentages are computed; with
\* no symbol at all the division raises and the file stays as it is
PageReport(report_input, path) ==
    LET all_api_symbols == GetAllApiSymbols(report_input)
        used_symbols == DOMAIN SymbolToPlugins(report_input)
        unused_symbols == GetUnusedSymbols(all_api_symbols, used_symbols)
    IN IF all_api_symbols = {}
       THEN Report(all_api_symbols, used_symbols, unused_symbols,
                   (path :> [plugins |-> PluginRows(report_input)]), TRUE)
       ELSE Report(all_api_symbols, used_symbols, unused_symbols,
                   (path :> Statistics(report_input, all_api_symbols, used_symbols,
                                       unused_symbols)), FALSE)

\* _generate_csv_report: report.csv and unused_symbols.csv
CsvReport(report_input) ==
    LET all_symbols == GetAllApiSymbols(report_input)
        used_symbols == DOMAIN SymbolToPlugins(report_input)
        unused_symbols == GetUnusedSymbols(all_symbols, used_symbols)
        rows == PluginRows(report_input)
        symbols_of(name) ==
            LET flat == FlatPlugins(report_input)
            IN flat[CHOOSE i \in 1..Len(flat) : flat[i].name = name].symbols
    IN Report(all_symbols, used_symbols, unused_symbols,
              ("report.csv" :>
                  [header |-> <<"Plugin", "API Version">> \o Sorted(all_symbols),
                   rows |-> [p \in 1..Len(rows) |->
                               rows[p] \o [k \in 1..Cardinality(all_symbols) |->
                                              IF Sorted(all_symbols)[k]
                                                   \in DOMAIN symbols_of(rows[p][1])
                                              THEN "X" ELSE ""]]])
              @@ ("unused_symbols.csv" :>
                  [header |-> <<"Unused API Symbol">>,
                   rows |-> Sorted(unused_symbols)]),
              FALSE)

\* _generate_json_report: the division is in the dict written, before the
\* file is opened
JsonReport(report_input) ==
    LET all_api_symbols == GetAllApiSymbols(report_input)
        symbol_to_plugins == SymbolToPlugins(report_input)
        used_symbols == DOMAIN symbol_to_plugins
        unused_symbols == GetUnusedSymbols(all_api_symbols, used_symbols)
        flat == FlatPlugins(report_input)
    IN IF all_api_symbols = {}
       THEN Report(all_api_symbols, used_symbols, unused_symbols, <<>>, TRUE)
       ELSE Report(all_api_symbols, used_symbols, unused_symbols,
                   ("report.json" :>
                       [total |-> Cardinality(all_api_symbols),
                        used |-> Cardinality(used_symbols),
                        unused |-> Cardinality(unused_symbols),
                        used_percentage |-> Percentage(Cardinality(used_symbols),
                                                       Cardinality(all_api_symbols)),
                        plugins |-> [p \in 1..Len(flat) |->
                                        [name |-> flat[p].name,
                                         api_version |-> flat[p].api_version,
                                         symbol_count |-> Cardinality(DOMAIN flat[p].symbols)]],
                        used_rows |-> symbol_to_plugins,
                        unused_rows |-> Sorted(unused_symbols),
                        api_versions |-> report_input]),
                   FALSE)

\* generate: the report of self.format, markdown for a format it does not
\* know
GenerateReport ==
    /\ pc = "report"
    /\ report' = CASE format = "csv" -> CsvReport(report_results)
                   [] format = "json" -> JsonReport(report_results)
                   [] format = "html" -> PageReport(report_results, "report.html")
                   [] OTHER -> PageReport(report_results, "report.md")
    /\ pc' = "reported"
    /\ UNCHANGED <<api_symbols, cpp_files, file_idx, content, symbol_names, chunk_i,
                   symbols_to_check, pending, certified, found_symbols,
                   symbol_counts, returned, result, _LIBCLANG_INITIALIZED, Config,
                   libclang, init_runs, parsers, format, report_results>>
    /\ UNCHANGED batch_vars

MaxCount == 2

\* the tallies of a plugin: each of two symbols absent or counted 1..n times
ReportTallies(n) ==
    UNION {[S -> 1..n] : S \in SUBSET {FOO, SHIP_TURN}}

\* the plugins of one api version: none, one or two
PluginLists(names, n) ==
    {<<>>}
    \cup {<<[name |-> names[1], symbols |-> t]>> : t \in ReportTallies(n)}
    \cup {<<[name |-> names[2], symbols |-> t]>> : t \in ReportTallies(n)}
    \cup {<<[name |-> names[2], symbols |-> t2], [name |-> names[1], symbols |-> t1]>> :
             t1 \in ReportTallies(n), t2 \in ReportTallies(n)}

\* the results reported: an api version with up to two plugins, and before
\* or after it nothing or another version with one plugin
ReportInputs ==
    LET later == [api_version |-> <<"api_version_", "1.18">>,
                  plugins |-> <<[name |-> "gamma", symbols |-> (SHIP_TURN :> 1)]>>]
    IN UNION {{IF ps = <<>> THEN <<>> ELSE <<[api_version |-> <<"api_version_", "1.16">>,
                                               plugins |-> ps]>>,
               (IF ps = <<>> THEN <<>> ELSE <<[api_version |-> <<"api_version_", "1.16">>,
                                                plugins |-> ps]>>) \o <<later>>} :
              ps \in PluginLists(<<"alpha", "Beta">>, MaxCount)}

\* ReportGenerator(output_dir, format).generate(results) is called
InitReport ==
    /\ api_symbols = <<>>
    /\ cpp_files = <<>>
    /\ pc = "report"
    /\ file_idx = 1
    /\ content = <<>>
    /\ symbol_names = <<>>
    /\ chunk_i = 0
    /\ symbols_to_check = {}
    /\ pending = {}
    /\ certified = {}
    /\ found_symbols = {}
    /\ symbol_counts = <<>>
    /\ returned = <<>>
    /\ result = NoResult
    /\ NoBatch
    /\ _LIBCLANG_INITIALIZED = FALSE
    /\ Config = [loaded |-> FALSE, library_file |-> FALSE]
    /\ libclang = [found |-> TRUE, loadable |-> TRUE]
    /\ init_runs = 0
    /\ parsers = <<>>
    /\ format \in {"markdown", "csv", "json", "html", "text"}
    /\ report_results \in ReportInputs
    /\ report = NoReport

ReportSpec == InitReport /\ [][GenerateReport]_vars

\* the symbols some plugin of the results has in its tally
SymbolsOfResults ==
    {s \in {FOO, SHIP_TURN, WIDGET} :
        \E v \in 1..Len(report_results) :
           \E p \in 1..Len(report_results[v].plugins) :
              s \in DOMAIN report_results[v].plugins[p].symbols}

\* C30: in every format, when generate has ended, the set of all API
\* symbols it computed is the set of the symbols in the tallies of the
\* results, the set of used symbols is the same set, and the set of unused
\* symbols is empty; a markdown, html or json report that was written to
\* its end shows a total equal to the number of used symbols and no unused
\* symbol; the csv report has one column for each used symbol and no row in
\* its file of unused symbols.  (With no symbol in the results the
\* markdown, html and json reports end on a division by zero.)
C30_AllSymbolsAreUsedSymbols ==
    pc = "reported" =>
        /\ report.all_api_symbols = SymbolsOfResults
        /\ report.used_symbols = report.all_api_symbols
        /\ report.unused_symbols = {}
        /\ report.raised <=> (format # "csv" /\ SymbolsOfResults = {})
        /\ \A path \in DOMAIN report.files :
              LET file == report.files[path]
              IN /\ path \in {"report.md", "report.html", "report.json"} /\ ~report.raised =>
                       /\ file.total = file.used
                       /\ file.used = Cardinality(report.used_symbols)
                       /\ file.unused = 0
                       /\ file.unused_rows = <<>>
                       /\ file.used_percentage = 1000
                 /\ path = "report.csv" =>
                       Len(file.header) = 2 + Cardinality(report.used_symbols)
                 /\ path = "unused_symbols.csv" => file.rows = <<>>

\* a json report of results of two versions and three plugins using two
\* symbols: a total of 2, 2 used, none unused
C30_Witness ==
    /\ pc = "reported"
    /\ format = "json"
    /\ Len(report_results) = 2
    /\ Len(FlatPlugins(report_results)) = 3
    /\ "report.json" \in DOMAIN report.files
    /\ report.files["report.json"].total = 2
    /\ report.files["report.json"].used = 2
    /\ report.files["report.json"].unused_rows = <<>>

=============================================================================
